---- MODULE Spec2Model ----
(***************************************************************************)
(* PingZilla background monitoring engine (src-tauri/src/lib.rs).          *)
(*                                                                         *)
(* The shared AppState, the tauri command handlers that mutate it and the  *)
(* unified background service are modelled as a state machine.  A command  *)
(* handler is split at the points where it awaits a tokio Mutex it keeps   *)
(* holding afterwards; a guard that is taken and dropped inside a single   *)
(* statement is one atomic step guarded by the lock being free.            *)
(*                                                                         *)
(* Option<T> is modelled as a sequence: <<>> is None, <<v>> is Some(v).    *)
(* Time (Utc::now()) is the variable now, in whole seconds, which is what  *)
(* num_seconds() yields.                                                   *)
(***************************************************************************)
EXTENDS Integers, Sequences, FiniteSets, TLC

VARIABLES
    \* ---- AppState (lib.rs 162-186) ----
    targets,                \* Mutex<Vec<String>>
    ping_history,           \* Mutex<HashMap<String, VecDeque<PingResult>>>
    primary_target,         \* Mutex<String>
    ping_interval_secs,     \* Mutex<u32>
    \* ---- tokio mutexes held across an await ----
    locks,                  \* lock name -> holder ("free" when not held)
    \* ---- command handler tasks ----
    pc,                     \* task -> position inside its handler
    arg,                    \* task -> [op, target] of its current / last call
    ret,                    \* task -> result of its last finished call
    ncalls,                 \* task -> number of calls it has made
    \* ---- unified background service (lib.rs 1086-1228) ----
    spc,                    \* position inside the loop body
    tick_count,             \* let mut tick_count = 0u64
    snap_targets,           \* targets cloned at the start of the tick
    snap_primary,           \* primary_target cloned at the start of the tick
    idx,                    \* index of the target being probed (for target in &targets)
    \* ---- AppState: alerting and network identity (lib.rs 166-178) ----
    notification_threshold_ms,  \* Mutex<u32>
    last_notification,          \* Mutex<Option<DateTime<Utc>>>
    vpn_settings,               \* Mutex<VpnProtectionSettings>
    ip_info,                    \* Mutex<Option<IpInfo>>
    ip_info_last_check,         \* Mutex<Option<DateTime<Utc>>>
    network_stability,          \* Mutex<NetworkStability>
    network_change_history,     \* Mutex<VecDeque<NetworkChangeEvent>>
    last_ip_check_was_manual,   \* Mutex<bool>
    last_vpn_notification,      \* Mutex<Option<DateTime<Utc>>>
    \* ---- check_ip_change in progress (lib.rs 913-993) ----
    ipc,                        \* position inside check_ip_change
    ip_settings,                \* let settings = vpn_settings.clone()
    ip_current,                 \* the IpInfo the fetch returned
    ip_change,                  \* the change detect_network_change returned
    nchecks,                    \* number of checks started
    \* ---- AppState: site monitoring (lib.rs 171-172) ----
    site_monitors,              \* Mutex<Vec<SiteMonitor>>
    site_statuses,              \* Mutex<HashMap<String, SiteStatus>>
    \* ---- check_all_sites in progress (lib.rs 850-910) ----
    swpc,                       \* position inside check_all_sites
    sweep_monitors,             \* let monitors = site_monitors.clone()
    sweep_idx,                  \* position of the for loop in monitors
    was_up,                     \* let was_up
    any_changed,                \* let mut any_changed
    final_status,               \* let final_status
    nsweeps,                    \* number of sweeps started
    \* ---- the background service and the disk (lib.rs 1067-1108, 1215-1275) ----
    is_system_sleeping,         \* AtomicBool
    last_interval_secs,         \* let mut last_interval_secs
    disk,                       \* history_v2.json: its text, or none
    disk_job,                   \* the write handed to spawn_blocking, or none
    nsaves,                     \* number of flushes started
    nnaps,                      \* number of 1 s waits while sleeping
    \* ---- AppState: the tray (lib.rs 167, 180) and the tray icon itself ----
    display_mode,               \* Mutex<DisplayMode>
    last_tray_state,            \* Mutex<Option<TrayState>>
    tray,                       \* what set_icon and set_title last put in the menu bar
    \* ---- do_ping in progress (lib.rs 777-798) ----
    net,                        \* what the network answers to the four strategies
    ppc,                        \* position inside do_ping
    attempts,                   \* the strategies tried so far, in order
    probe_out,                  \* the (latency_ms, method) do_ping returned
    \* ---- the body of the tick's for loop in progress (lib.rs 1115-1197) ----
    tick_result,                \* let result = PingResult { .. }
    tick_mode,                  \* let display_mode = display_mode.clone()
    tick_threshold,             \* let threshold = *notification_threshold_ms
    \* ---- set_display_mode in progress (lib.rs 329-407) ----
    sdm_primary,                \* let primary_target = primary_target.clone()
    save_copy,                  \* the clones save_history_async has taken so far
    \* ---- the value the last query command returned ----
    reply,
    \* ---- what leaves the engine ----
    notifications,              \* notification().builder()...show(), in order
    emitted,                    \* app_handle.emit(name, payload), in order
    \* ---- wall clock ----
    now

regVars   == <<targets, ping_history, primary_target, ping_interval_secs, locks>>
taskVars  == <<pc, arg, ret, ncalls>>
schedVars == <<spc, tick_count, snap_targets, snap_primary, idx>>
gateVars  == <<notification_threshold_ms, last_notification>>
ipVars    == <<vpn_settings, ip_info, ip_info_last_check, network_stability,
               network_change_history, last_ip_check_was_manual,
               last_vpn_notification>>
ipLocals  == <<ipc, ip_settings, ip_current, ip_change, nchecks>>
outVars   == <<notifications, emitted>>
\* the state of the components other than the registry, its handlers and the
\* ping loop
siteVars  == <<site_monitors, site_statuses>>
sweepVars == <<swpc, sweep_monitors, sweep_idx, was_up, any_changed,
               final_status, nsweeps>>
svcVars   == <<is_system_sleeping, last_interval_secs, disk, disk_job, nsaves, nnaps>>
uiVars    == <<display_mode, last_tray_state, tray>>
probeVars == <<net, ppc, attempts, probe_out>>
tickLocals == <<tick_result, tick_mode, tick_threshold, sdm_primary, save_copy>>
extVars   == <<uiVars, probeVars, tickLocals, reply>>
compVars  == <<gateVars, ipVars, ipLocals, siteVars, sweepVars, svcVars, outVars,
               extVars>>

-----------------------------------------------------------------------------
(* Bounds of the model *)

\* total number of command invocations in a run
MaxCalls == 3
\* number of scheduler ticks in a run of the registry specification
MaxTicks == 1
\* number of samples appended in a run of the history specification
MaxAppends == 110
\* number of identity checks started in a run of the alert specification
MaxChecks == 3
\* number of primary-target samples evaluated in a run of the alert specification
MaxSamples == 2
\* number of set_vpn_settings calls in a run of the alert specification
MaxSettingsCalls == 1
\* number of sweeps started in a run of the site specification
MaxSweeps == 5
\* number of add_site_monitor / remove_site_monitor calls in such a run
MaxSiteCalls == 1
\* number of ticks of the whole service loop in a run
MaxServiceTicks == 12
\* number of 1 s waits of the service while the system sleeps
MaxNaps == 2
MaxIntervalCalls == 1
MaxMonitorCalls == 13
MaxFlushes == 2
MaxRestartNow == 200
MaxQueryCalls == 2
MaxModeCalls == 1
MaxLogChecks == 140
MaxOrderTicks == 3
MaxLockCalls == 2
MaxLockTicks == 1
MaxSnapshots == 1
\* number of get_my_ip_info calls in a run of the refresh specification
MaxRefreshCalls == 2
\* number of background identity checks in such a run
MaxRefreshChecks == 1
MaxAlertTicks == 4
MaxPrimaryCalls == 1
MaxTrayTicks == 2
\* the clock stops advancing here (seconds)
MaxNow == 61

-----------------------------------------------------------------------------
(* Values *)

None == <<>>
Some(v) == <<v>>
IsSome(o) == o # <<>>
Unwrap(o) == o[1]

\* AppState::default(): the one target every fresh state monitors
DefaultTarget == "1.1.1.1"
\* hosts a user may name in add_target / remove_target / set_primary_target
TargetIds == {"1.1.1.1", "8.8.8.8", "9.9.9.9"}
Tasks == {"h1", "h2"}
LockNames == {"targets", "ping_history", "primary_target", "site_monitors",
              "site_statuses"}

Range(s) == {s[i] : i \in 1..Len(s)}
Contains(s, x) == x \in Range(s)
\* Vec::retain(|t| t != &target)
Retain(s, x) == SelectSeq(s, LAMBDA e : e # x)
NoDuplicates(s) == \A i, j \in 1..Len(s) : s[i] = s[j] => i = j

\* HashMap::insert / HashMap::remove
MapInsert(m, k, v) == [x \in (DOMAIN m) \cup {k} |-> IF x = k THEN v ELSE m[x]]
MapRemove(m, k) == [x \in (DOMAIN m) \ {k} |-> m[x]]

-----------------------------------------------------------------------------
(* ProbeEngine: do_ping (lib.rs 777-798) *)

\* The four strategies' answers are the inputs; each is Some(ms) or None.
do_ping(icmp, tcp53, tcp443, tcp80) ==
    IF IsSome(icmp) THEN <<icmp, Some("Icmp")>>
    ELSE IF IsSome(tcp53) THEN <<tcp53, Some("TcpDns")>>
    ELSE IF IsSome(tcp443) THEN <<tcp443, Some("TcpHttps")>>
    ELSE IF IsSome(tcp80) THEN <<tcp80, Some("TcpHttp")>>
    ELSE <<None, None>>

\* what the network answers to the probes of a host in the registry
\* specification: one host answers ICMP, one only TCP port 53, one nothing
ProbeAnswer(t) ==
    IF t = "1.1.1.1" THEN <<Some(20), None, None, None>>
    ELSE IF t = "8.8.8.8" THEN <<None, Some(35), None, None>>
    ELSE <<None, None, None, None>>

-----------------------------------------------------------------------------
(* HistoryStore: the append of the background service (lib.rs 1125-1135) *)

\* while target_history.len() > 8640 { pop_front() }
HistoryCap == 8640

RECURSIVE TrimFront(_, _)
TrimFront(h, cap) == IF Len(h) > cap THEN TrimFront(Tail(h), cap) ELSE h

\* Faulty variant: the sample is pushed at the front.
PushSample_Front(h, r) == <<r>> \o h

\* Faulty variant: the trimming loop is missing.
PushSample_NoTrim(h, r) == Append(h, r)

\* push_back(result) followed by the trimming loop
PushSample(h, r) == TrimFront(Append(h, r), HistoryCap)

\* history.entry(target).or_insert_with(VecDeque::new), then PushSample
AppendToHistory(hist, r) ==
    LET old == IF r.target \in DOMAIN hist THEN hist[r.target] ELSE <<>>
    IN  MapInsert(hist, r.target, PushSample(old, r))

-----------------------------------------------------------------------------
(* TargetRegistry: add_target, remove_target, set_primary_target           *)
(* (lib.rs 259-301)                                                        *)

TotalCalls == ncalls["h1"] + ncalls["h2"]

\* what a command handler of the registry never touches
HandlerFrame == UNCHANGED <<schedVars, now, compVars>>
\* what the background service never touches
SchedFrame == UNCHANGED <<taskVars, compVars>>

Invoke(h, op, t) ==
    /\ pc[h] = "idle"
    /\ TotalCalls < MaxCalls
    /\ ncalls' = [ncalls EXCEPT ![h] = @ + 1]
    /\ arg' = [arg EXCEPT ![h] = [op |-> op, target |-> t]]

\* Faulty variant: the membership test is dropped, every call pushes.
add_target_is_new_Unchecked(tgts, t) == TRUE

\* if !targets.contains(&target)                               (line 262)
add_target_is_new(tgts, t) == ~Contains(tgts, t)

\* add_target up to the await of ping_history: takes targets, pushes.
AddTarget(h, t) ==
    /\ HandlerFrame
    /\ Invoke(h, "add_target", t)
    /\ locks["targets"] = "free"
    /\ IF add_target_is_new(targets, t)
         THEN /\ targets' = Append(targets, t)
              /\ locks' = [locks EXCEPT !["targets"] = h]
              /\ pc' = [pc EXCEPT ![h] = "add_target_history"]
              /\ ret' = [ret EXCEPT ![h] = "pending"]
         ELSE /\ ret' = [ret EXCEPT ![h] = "Ok"]
              /\ UNCHANGED <<targets, locks, pc>>
    /\ UNCHANGED <<ping_history, primary_target, ping_interval_secs>>

\* history.insert(target, VecDeque::with_capacity(1000)); both guards drop.
AddTargetHistory(h) ==
    /\ HandlerFrame
    /\ pc[h] = "add_target_history"
    /\ locks["ping_history"] = "free"
    /\ ping_history' = MapInsert(ping_history, arg[h].target, <<>>)
    /\ locks' = [locks EXCEPT !["targets"] = "free"]
    /\ pc' = [pc EXCEPT ![h] = "idle"]
    /\ ret' = [ret EXCEPT ![h] = "Ok"]
    /\ UNCHANGED <<targets, primary_target, ping_interval_secs, arg, ncalls>>

\* Faulty variant: only an empty list is protected.
remove_target_rejects_Empty(tgts) == Len(tgts) < 1

\* if targets.len() <= 1 { return Err(..) }                      (line 274)
remove_target_rejects(tgts) == Len(tgts) <= 1

\* remove_target up to the await of ping_history: the check and the retain.
RemoveTarget(h, t) ==
    /\ HandlerFrame
    /\ Invoke(h, "remove_target", t)
    /\ locks["targets"] = "free"
    /\ IF remove_target_rejects(targets)
         THEN /\ ret' = [ret EXCEPT ![h] = "Err"]
              /\ UNCHANGED <<targets, locks, pc>>
         ELSE /\ targets' = Retain(targets, t)
              /\ locks' = [locks EXCEPT !["targets"] = h]
              /\ pc' = [pc EXCEPT ![h] = "remove_target_history"]
              /\ ret' = [ret EXCEPT ![h] = "pending"]
    /\ UNCHANGED <<ping_history, primary_target, ping_interval_secs>>

\* history.remove(&target), the guard is kept; then await primary_target.
RemoveTargetHistory(h) ==
    /\ HandlerFrame
    /\ pc[h] = "remove_target_history"
    /\ locks["ping_history"] = "free"
    /\ ping_history' = MapRemove(ping_history, arg[h].target)
    /\ locks' = [locks EXCEPT !["ping_history"] = h]
    /\ pc' = [pc EXCEPT ![h] = "remove_target_primary"]
    /\ UNCHANGED <<targets, primary_target, ping_interval_secs, arg, ret, ncalls>>

\* Faulty variant: the primary is left alone when it is the removed target.
remove_target_new_primary_Stale(primary, t, tgts) == primary

\* if *primary == target { *primary = targets.first().cloned().unwrap_or_default() }
\*                                                          (lines 283-285)
remove_target_new_primary(primary, t, tgts) ==
    IF primary = t
      THEN (IF Len(tgts) > 0 THEN tgts[1] ELSE "")
      ELSE primary

RemoveTargetPrimary(h) ==
    /\ HandlerFrame
    /\ pc[h] = "remove_target_primary"
    /\ locks["primary_target"] = "free"
    /\ primary_target' = remove_target_new_primary(primary_target, arg[h].target, targets)
    /\ locks' = [locks EXCEPT !["targets"] = "free", !["ping_history"] = "free"]
    /\ pc' = [pc EXCEPT ![h] = "idle"]
    /\ ret' = [ret EXCEPT ![h] = "Ok"]
    /\ UNCHANGED <<targets, ping_history, ping_interval_secs, arg, ncalls>>

\* set_primary_target: the membership check under the targets guard, which is
\* dropped (drop(targets), line 296) before primary_target is awaited.
SetPrimaryTarget(h, t) ==
    /\ HandlerFrame
    /\ Invoke(h, "set_primary_target", t)
    /\ locks["targets"] = "free"
    /\ IF ~Contains(targets, t)
         THEN /\ ret' = [ret EXCEPT ![h] = "Err"]
              /\ UNCHANGED pc
         ELSE /\ pc' = [pc EXCEPT ![h] = "set_primary_write"]
              /\ ret' = [ret EXCEPT ![h] = "pending"]
    /\ UNCHANGED regVars

\* *primary = target                                        (lines 298-299)
SetPrimaryWrite(h) ==
    /\ HandlerFrame
    /\ pc[h] = "set_primary_write"
    /\ locks["primary_target"] = "free"
    /\ primary_target' = arg[h].target
    /\ pc' = [pc EXCEPT ![h] = "idle"]
    /\ ret' = [ret EXCEPT ![h] = "Ok"]
    /\ UNCHANGED <<targets, ping_history, ping_interval_secs, locks, arg, ncalls>>

-----------------------------------------------------------------------------------------------------------------------------------------------------
(* Scheduler: the ping part of one tick (lib.rs 1100-1135, 1221-1225) *)

\* tick_count += 1
sched_loop_head(budget) ==
    /\ spc = "loop"
    /\ tick_count < budget
    /\ tick_count' = tick_count + 1
    /\ spc' = "snap_targets"
    /\ UNCHANGED <<snap_targets, snap_primary, idx>>
    /\ UNCHANGED <<extVars, regVars, now>>
    /\ SchedFrame

\* the loop head in the registry specification
SchedLoopHead == sched_loop_head(MaxTicks)

\* let targets = state.targets.lock().await.clone()
SchedSnapTargets ==
    /\ spc = "snap_targets"
    /\ locks["targets"] = "free"
    /\ snap_targets' = targets
    /\ spc' = "snap_primary"
    /\ UNCHANGED <<tick_count, snap_primary, idx>>
    /\ UNCHANGED <<extVars, regVars, now>>
    /\ SchedFrame

\* Faulty variant: the guard of primary_target is kept for the rest of the
\* tick.
SchedSnapPrimary_KeepsGuard ==
    /\ spc = "snap_primary"
    /\ locks["primary_target"] = "free"
    /\ locks' = [locks EXCEPT !["primary_target"] = "sched"]
    /\ snap_primary' = primary_target
    /\ idx' = 1
    /\ spc' = IF Len(snap_targets) >= 1 THEN "ping" ELSE "sleep"
    /\ UNCHANGED <<tick_count, snap_targets>>
    /\ UNCHANGED <<extVars, targets, ping_history, primary_target,
                   ping_interval_secs, now>>
    /\ SchedFrame

\* let primary_target = state.primary_target.lock().await.clone()
SchedSnapPrimary ==
    /\ spc = "snap_primary"
    /\ locks["primary_target"] = "free"
    /\ snap_primary' = primary_target
    /\ idx' = 1
    /\ spc' = IF Len(snap_targets) >= 1 THEN "ping" ELSE "sleep"
    /\ UNCHANGED <<tick_count, snap_targets>>
    /\ UNCHANGED <<extVars, regVars, now>>
    /\ SchedFrame

\* the PingResult built from do_ping(target).await          (lines 1116-1123)
PingResult(t, a, ts) ==
    LET r == do_ping(a[1], a[2], a[3], a[4])
    IN  [timestamp |-> ts, latency_ms |-> r[1], target |-> t, method |-> r[2]]

\* Faulty variant: the loop reads the live target list instead of its copy.
SchedPing_Live ==
    /\ spc = "ping"
    /\ locks["ping_history"] = "free"
    /\ LET t == targets[IF idx <= Len(targets) THEN idx ELSE 1]
       IN  ping_history' = AppendToHistory(ping_history, PingResult(t, ProbeAnswer(t), now))
    /\ IF idx < Len(snap_targets)
         THEN idx' = idx + 1 /\ spc' = "ping"
         ELSE idx' = idx /\ spc' = "sleep"
    /\ UNCHANGED <<tick_count, snap_targets, snap_primary>>
    /\ UNCHANGED <<targets, primary_target, ping_interval_secs, locks, now>>
    /\ SchedFrame

\* One target of the snapshot: the probe (which touches no shared state) and
\* the block that takes ping_history and appends the result.
SchedPing ==
    /\ spc = "ping"
    /\ locks["ping_history"] = "free"
    /\ LET t == snap_targets[idx]
       IN  ping_history' = AppendToHistory(ping_history, PingResult(t, ProbeAnswer(t), now))
    /\ IF idx < Len(snap_targets)
         THEN idx' = idx + 1 /\ spc' = "ping"
         ELSE idx' = idx /\ spc' = "sleep"
    /\ UNCHANGED <<tick_count, snap_targets, snap_primary>>
    /\ UNCHANGED <<targets, primary_target, ping_interval_secs, locks, now>>
    /\ SchedFrame

\* tokio::time::sleep(Duration::from_secs(interval_secs))
SchedSleep ==
    /\ spc = "sleep"
    /\ now' = now + ping_interval_secs
    /\ spc' = "loop"
    /\ UNCHANGED <<tick_count, snap_targets, snap_primary, idx>>
    /\ UNCHANGED regVars
    /\ SchedFrame

-----------------------------------------------------------------------------
(* NetworkIdentityTracker and NotificationGate (lib.rs 506-592, 913-993,   *)
(* 1162-1197)                                                              *)

CountryName(cc) == IF cc = "US" THEN "United States" ELSE "Germany"

\* struct IpInfo (lib.rs 60-66)
MkIpInfo(ip, cc, isp) ==
    [ip |-> ip, country |-> CountryName(cc), country_code |-> cc,
     city |-> None, isp |-> isp]

\* what the identity service may answer: between two of these answers the
\* country, the address and the provider differ in every combination the
\* comparison distinguishes
IpInfos ==
    { MkIpInfo("1.1.1.1", "US", Some("isp-a")),
      MkIpInfo("2.2.2.2", "US", Some("isp-a")),
      MkIpInfo("1.1.1.1", "DE", Some("isp-a")),
      MkIpInfo("2.2.2.2", "DE", Some("isp-a")),
      MkIpInfo("1.1.1.1", "US", Some("isp-b")) }

\* struct NetworkChangeEvent (lib.rs 97-103)
ChangeEvent(type, prev, current, t, is_manual) ==
    [change_type |-> type, previous |-> Some(prev), current |-> current,
     timestamp |-> t, is_expected |-> is_manual]

\* Faulty variant: the address is compared before the country.
detect_network_change_IpFirst(prev, current, is_manual, t) ==
    IF prev.ip # current.ip
      THEN Some(ChangeEvent("IpChanged", prev, current, t, is_manual))
    ELSE IF prev.country_code # current.country_code
      THEN Some(ChangeEvent("CountryChanged", prev, current, t, is_manual))
    ELSE IF prev.isp # current.isp
      THEN Some(ChangeEvent("IspChanged", prev, current, t, is_manual))
    ELSE None

\* detect_network_change (lib.rs 527-566); t is Utc::now()
detect_network_change(prev, current, is_manual, t) ==
    IF prev.country_code # current.country_code
      THEN Some(ChangeEvent("CountryChanged", prev, current, t, is_manual))
    ELSE IF prev.ip # current.ip
      THEN Some(ChangeEvent("IpChanged", prev, current, t, is_manual))
    ELSE IF prev.isp # current.isp
      THEN Some(ChangeEvent("IspChanged", prev, current, t, is_manual))
    ELSE None

\* Faulty variant: the cooldown test is dropped.
should_send_vpn_notification_NoCooldown(change, settings, last, t) ==
    IF change.is_expected THEN FALSE
    ELSE IF change.change_type = "CountryChanged" THEN settings.alert_on_country_change
    ELSE IF change.change_type = "IpChanged" THEN settings.alert_on_ip_change
    ELSE FALSE

\* should_send_vpn_notification (lib.rs 569-592); t is Utc::now()
should_send_vpn_notification(change, settings, last, t) ==
    IF change.is_expected THEN FALSE
    ELSE IF IsSome(last) /\ (t - Unwrap(last)) < 30 THEN FALSE
    ELSE IF change.change_type = "CountryChanged" THEN settings.alert_on_country_change
    ELSE IF change.change_type = "IpChanged" THEN settings.alert_on_ip_change
    ELSE FALSE

\* Faulty variant: a change of provider counts as well.
update_stability_CountsIsp(st, change, t) ==
    IF change.change_type = "CountryChanged"
      THEN [st EXCEPT !.last_country_change = Some(t),
                      !.changes_last_hour = @ + 1]
    ELSE IF change.change_type = "IpChanged"
      THEN [st EXCEPT !.last_ip_change = Some(t),
                      !.changes_last_hour = @ + 1]
    ELSE [st EXCEPT !.changes_last_hour = @ + 1]

\* the stability update of check_ip_change (lib.rs 934-947)
update_stability(st, change, t) ==
    IF change.change_type = "CountryChanged"
      THEN [st EXCEPT !.last_country_change = Some(t),
                      !.changes_last_hour = @ + 1]
    ELSE IF change.change_type = "IpChanged"
      THEN [st EXCEPT !.last_ip_change = Some(t),
                      !.changes_last_hour = @ + 1]
    ELSE st

\* if history.len() > 100 { pop_front() }                        (line 954)
ChangeLogCap == 100

\* Faulty variant: a full log drops the event that has just arrived.
push_change_DropNewest(log, change) ==
    LET a == Append(log, change)
    IN  IF Len(a) > ChangeLogCap THEN SubSeq(a, 1, ChangeLogCap) ELSE a

\* the change-log push of check_ip_change (lib.rs 950-957)
push_change(log, change) ==
    LET a == Append(log, change)
    IN  IF Len(a) > ChangeLogCap THEN Tail(a) ELSE a

\* Faulty variant: only the changes that can be notified are emitted.
network_change_emit_SkipIsp(change) ==
    IF change.change_type = "IspChanged" THEN <<>>
    ELSE <<[name |-> "network-change", payload |-> change]>>

\* app_handle.emit("network-change", &change)                    (line 931)
network_change_emit(change) == <<[name |-> "network-change", payload |-> change]>>

\* the notification of check_ip_change (lib.rs 962-982)
vpn_notification(change, t) ==
    [title |-> IF change.change_type = "CountryChanged"
                 THEN "VPN Alert: Location Changed!"
               ELSE IF change.change_type = "IpChanged"
                 THEN "Network: IP Changed"
               ELSE "Network Change",
     body |-> change.current.ip,
     at |-> t]

\* let settings = state.vpn_settings.lock().await.clone();
\* if !settings.enabled { return; }                       (lines 914-919)
check_ip_start(budget, elapsed) ==
    /\ ipc = "idle"
    /\ nchecks < budget
    /\ nchecks' = nchecks + 1
    /\ now' = now + elapsed
    /\ ip_settings' = vpn_settings
    /\ ipc' = IF vpn_settings.enabled THEN "fetch" ELSE "idle"
    /\ UNCHANGED <<ip_current, ip_change>>
    /\ UNCHANGED <<extVars, regVars, svcVars, taskVars, schedVars, gateVars, ipVars, siteVars, sweepVars, outVars>>

\* the start of a check in the identity specification, whose clock is a step
\* of its own
CheckIpStart == check_ip_start(MaxChecks, 0)

\* Faulty variant: a failed fetch drops the cached identity.
CheckIpFetchErr_ClearsCache ==
    /\ ipc = "fetch"
    /\ ipc' = "idle"
    /\ ip_info' = None
    /\ ip_info_last_check' = None
    /\ UNCHANGED <<vpn_settings, network_stability, network_change_history,
                   last_ip_check_was_manual, last_vpn_notification>>
    /\ UNCHANGED <<ip_settings, ip_current, ip_change, nchecks>>
    /\ UNCHANGED <<extVars, regVars, svcVars, taskVars, schedVars, gateVars, siteVars, sweepVars, outVars, now>>

\* fetch_ip_info_internal().await returned Err: the body is skipped (line 922)
CheckIpFetchErr ==
    /\ ipc = "fetch"
    /\ ipc' = "idle"
    /\ UNCHANGED <<ip_settings, ip_current, ip_change, nchecks>>
    /\ UNCHANGED <<extVars, regVars, svcVars, taskVars, schedVars, gateVars, ipVars, siteVars, sweepVars, outVars, now>>

\* fetch_ip_info_internal().await returned Ok(current): the comparison with
\* the cache, the event, the stability counters and the change log
\* (lines 922-957)
CheckIpDetect(current) ==
    /\ ipc = "fetch"
    /\ ip_current' = current
    /\ last_ip_check_was_manual' = FALSE
    /\ LET change == IF IsSome(ip_info)
                       THEN detect_network_change(Unwrap(ip_info), current,
                                                  last_ip_check_was_manual, now)
                       ELSE None
       IN  /\ ip_change' = change
           /\ IF IsSome(change)
                THEN /\ emitted' = emitted \o network_change_emit(Unwrap(change))
                     /\ network_stability' =
                            update_stability(network_stability, Unwrap(change), now)
                     /\ network_change_history' =
                            push_change(network_change_history, Unwrap(change))
                     /\ ipc' = "notify"
                ELSE /\ UNCHANGED <<emitted, network_stability, network_change_history>>
                     /\ ipc' = "store"
    /\ UNCHANGED <<vpn_settings, ip_info, ip_info_last_check, last_vpn_notification>>
    /\ UNCHANGED <<ip_settings, nchecks, notifications>>
    /\ UNCHANGED <<extVars, regVars, svcVars, taskVars, schedVars, gateVars, siteVars, sweepVars, now>>

\* the notification of a detected change (lines 959-985)
CheckIpNotify ==
    /\ ipc = "notify"
    /\ ipc' = "store"
    /\ LET c == Unwrap(ip_change)
           send == should_send_vpn_notification(c, ip_settings,
                                                last_vpn_notification, now)
       IN  /\ notifications' = IF send
                                 THEN Append(notifications, vpn_notification(c, now))
                                 ELSE notifications
           /\ last_vpn_notification' = IF send THEN Some(now)
                                       ELSE last_vpn_notification
    /\ UNCHANGED <<vpn_settings, ip_info, ip_info_last_check, network_stability,
                   network_change_history, last_ip_check_was_manual>>
    /\ UNCHANGED <<ip_settings, ip_current, ip_change, nchecks, emitted>>
    /\ UNCHANGED <<extVars, regVars, svcVars, taskVars, schedVars, gateVars, siteVars, sweepVars, now>>

\* Faulty variant: the cache is refreshed only when a change was detected.
CheckIpStore_OnlyOnChange ==
    /\ ipc = "store"
    /\ ip_info' = IF IsSome(ip_change) THEN Some(ip_current) ELSE ip_info
    /\ ip_info_last_check' = IF IsSome(ip_change) THEN Some(now)
                             ELSE ip_info_last_check
    /\ ipc' = "idle"
    /\ UNCHANGED <<vpn_settings, network_stability, network_change_history,
                   last_ip_check_was_manual, last_vpn_notification>>
    /\ UNCHANGED <<ip_settings, ip_current, ip_change, nchecks>>
    /\ UNCHANGED <<extVars, regVars, svcVars, taskVars, schedVars, gateVars, siteVars, sweepVars, outVars, now>>

\* *state.ip_info = Some(current); *state.ip_info_last_check = Some(Utc::now())
\*                                                          (lines 990-991)
CheckIpStore ==
    /\ ipc = "store"
    /\ ip_info' = Some(ip_current)
    /\ ip_info_last_check' = Some(now)
    /\ ipc' = "idle"
    /\ UNCHANGED <<vpn_settings, network_stability, network_change_history,
                   last_ip_check_was_manual, last_vpn_notification>>
    /\ UNCHANGED <<ip_settings, ip_current, ip_change, nchecks>>
    /\ UNCHANGED <<extVars, regVars, svcVars, taskVars, schedVars, gateVars, siteVars, sweepVars, outVars, now>>

\* struct VpnProtectionSettings (lib.rs 125-131)
MkVpnSettings(enabled, on_country, on_ip) ==
    [enabled |-> enabled, check_interval_secs |-> 60,
     alert_on_country_change |-> on_country, alert_on_ip_change |-> on_ip,
     expected_country |-> None]

AllVpnSettings ==
    { MkVpnSettings(e, c, i) : e \in BOOLEAN, c \in BOOLEAN, i \in BOOLEAN }

\* the settings a user stores in the identity specification: the defaults,
\* protection off, protection on with both alerts off
VpnSettingsChoices ==
    { MkVpnSettings(TRUE, TRUE, TRUE), MkVpnSettings(FALSE, TRUE, TRUE),
      MkVpnSettings(TRUE, FALSE, FALSE) }

\* set_vpn_settings (lib.rs 602-609); task h1 issues it
SetVpnSettings(settings) ==
    /\ ncalls["h1"] < MaxSettingsCalls
    /\ ncalls' = [ncalls EXCEPT !["h1"] = @ + 1]
    /\ arg' = [arg EXCEPT !["h1"] = [op |-> "set_vpn_settings", target |-> ""]]
    /\ ret' = [ret EXCEPT !["h1"] = "Ok"]
    /\ vpn_settings' = settings
    /\ UNCHANGED pc
    /\ UNCHANGED <<ip_info, ip_info_last_check, network_stability,
                   network_change_history, last_ip_check_was_manual,
                   last_vpn_notification>>
    /\ UNCHANGED <<extVars, regVars, svcVars, schedVars, gateVars, ipLocals, siteVars, sweepVars, outVars, now>>

\* Faulty variant: the upper limit is tested with >= and turns 120 away.
set_ping_interval_rejects_Upper(interval_secs) ==
    interval_secs < 5 \/ interval_secs >= 120

\* if interval_secs < 5 { Err } if interval_secs > 120 { Err } (lines 644-649)
set_ping_interval_rejects(interval_secs) ==
    interval_secs < 5 \/ interval_secs > 120

\* set_ping_interval (lib.rs 642-652); task h1 issues it
set_ping_interval_call(interval_secs, budget) ==
    /\ ncalls["h1"] < budget
    /\ ncalls' = [ncalls EXCEPT !["h1"] = @ + 1]
    /\ arg' = [arg EXCEPT !["h1"] = [op |-> "set_ping_interval",
                                     target |-> ToString(interval_secs)]]
    /\ IF set_ping_interval_rejects(interval_secs)
         THEN /\ ret' = [ret EXCEPT !["h1"] = "Err"]
              /\ UNCHANGED ping_interval_secs
         ELSE /\ ret' = [ret EXCEPT !["h1"] = "Ok"]
              /\ ping_interval_secs' = interval_secs
    /\ UNCHANGED <<targets, ping_history, primary_target, locks, pc>>
    /\ UNCHANGED <<schedVars, compVars, now>>

\* the values a user may ask for: the limits and their neighbours
IntervalChoices == {4, 5, 120, 121}

\* the cooldown test of the high-latency notification (lib.rs 1179-1184)
high_latency_should_notify(last, t) ==
    IF IsSome(last) THEN (t - Unwrap(last)) > 60 ELSE TRUE

\* what the network answers to the probe of the primary target in the alert
\* specification: fast, slow, or not at all
AlertProbeAnswers ==
    { <<Some(20), None, None, None>>, <<Some(500), None, None, None>>,
      <<None, None, None, None>> }

\* The part of one tick that follows the append, for the primary target:
\* emit("ping-update", &result) and the notification block (lines 1162-1197).
SchedNotify(a) ==
    /\ tick_count < MaxSamples
    /\ tick_count' = tick_count + 1
    /\ LET r == PingResult(primary_target, a, now)
           over == IsSome(r.latency_ms) /\ Unwrap(r.latency_ms) > notification_threshold_ms
           send == over /\ high_latency_should_notify(last_notification, now)
       IN  /\ emitted' = Append(emitted, [name |-> "ping-update", payload |-> r])
           /\ last_notification' = IF send THEN Some(now) ELSE last_notification
           /\ notifications' = IF send
                                 THEN Append(notifications,
                                             [title |-> "PingZilla Alert",
                                              body |-> "High latency detected", at |-> now])
                                 ELSE notifications
    /\ UNCHANGED notification_threshold_ms
    /\ UNCHANGED <<spc, snap_targets, snap_primary, idx>>
    /\ UNCHANGED <<extVars, regVars, svcVars, taskVars, ipVars, ipLocals, siteVars, sweepVars, now>>

\* time passing between two steps: of the notification block, of the identity
\* check
GateTimeSteps == {10, 30, 61}
IpTimeSteps == {30}

TimePasses(d) ==
    /\ now + d <= MaxNow
    /\ now' = now + d
    /\ UNCHANGED <<extVars, regVars, taskVars, schedVars, compVars>>

\* AppState::default() (lib.rs 196-208): alerting and identity
InitAlerts ==
    /\ notification_threshold_ms = 400
    /\ last_notification = None
    /\ vpn_settings = MkVpnSettings(TRUE, TRUE, TRUE)
    /\ ip_info = None
    /\ ip_info_last_check = None
    /\ network_stability = [changes_last_hour |-> 0, last_country_change |-> None,
                            last_ip_change |-> None]
    /\ network_change_history = <<>>
    /\ last_ip_check_was_manual = FALSE
    /\ last_vpn_notification = None
    /\ ipc = "idle"
    /\ ip_settings = MkVpnSettings(TRUE, TRUE, TRUE)
    /\ ip_current = MkIpInfo("1.1.1.1", "US", Some("isp-a"))
    /\ ip_change = None
    /\ nchecks = 0
    /\ notifications = <<>>
    /\ emitted = <<>>

-----------------------------------------------------------------------------
(* SiteMonitor (lib.rs 655-697, 800-910)                                   *)

SiteUrls == {"a.com", "b.com"}

\* struct SiteMonitor (lib.rs 70-74); add_site_monitor is called without a name
MkMonitor(url) == [url |-> url, name |-> None, enabled |-> TRUE]

\* if monitors.len() >= 10                                        (line 670)
MaxSiteMonitors == 10

\* Faulty variant: the limit is tested with > and lets an eleventh entry in.
add_site_monitor_rejects_Eleven(monitors, url) ==
    \/ Len(monitors) > MaxSiteMonitors
    \/ \E i \in 1..Len(monitors) : monitors[i].url = url

\* add_site_monitor (lib.rs 662-685): the limit and the duplicate test
add_site_monitor_rejects(monitors, url) ==
    \/ Len(monitors) >= MaxSiteMonitors
    \/ \E i \in 1..Len(monitors) : monitors[i].url = url

add_site_monitor_call(url, budget) ==
    /\ ncalls["h1"] < budget
    /\ ncalls' = [ncalls EXCEPT !["h1"] = @ + 1]
    /\ arg' = [arg EXCEPT !["h1"] = [op |-> "add_site_monitor", target |-> url]]
    /\ locks["site_monitors"] = "free"
    /\ IF add_site_monitor_rejects(site_monitors, url)
         THEN /\ ret' = [ret EXCEPT !["h1"] = "Err"]
              /\ UNCHANGED site_monitors
         ELSE /\ ret' = [ret EXCEPT !["h1"] = "Ok"]
              /\ site_monitors' = Append(site_monitors, MkMonitor(url))
    /\ UNCHANGED <<pc, site_statuses>>
    /\ UNCHANGED <<extVars, regVars, svcVars, schedVars, gateVars, ipVars, ipLocals, sweepVars,
                   outVars, now>>

\* add_site_monitor issued in the site specification
AddSiteMonitor(url) == add_site_monitor_call(url, MaxSiteCalls)

\* remove_site_monitor (lib.rs 688-697)
remove_site_monitor_call(url, budget) ==
    /\ ncalls["h1"] < budget
    /\ ncalls' = [ncalls EXCEPT !["h1"] = @ + 1]
    /\ arg' = [arg EXCEPT !["h1"] = [op |-> "remove_site_monitor", target |-> url]]
    /\ locks["site_monitors"] = "free"
    /\ locks["site_statuses"] = "free"
    /\ ret' = [ret EXCEPT !["h1"] = "Ok"]
    /\ site_monitors' = SelectSeq(site_monitors, LAMBDA m : m.url # url)
    /\ site_statuses' = MapRemove(site_statuses, url)
    /\ UNCHANGED pc
    /\ UNCHANGED <<extVars, regVars, svcVars, schedVars, gateVars, ipVars, ipLocals, sweepVars,
                   outVars, now>>

\* remove_site_monitor issued in the site specification
RemoveSiteMonitor(url) == remove_site_monitor_call(url, MaxSiteCalls)

\* check_site (lib.rs 802-847): connected tells whether the TCP connect
\* succeeded within the timeout, t is Utc::now()
check_site(url, connected, t) ==
    IF connected
      THEN [url |-> url, is_up |-> TRUE, latency_ms |-> Some(25),
            last_check |-> t, last_down |-> None]
      ELSE [url |-> url, is_up |-> FALSE, latency_ms |-> None,
            last_check |-> t, last_down |-> Some(t)]

\* Faulty variant: a site that answers is taken for an up-to-down edge too.
site_down_edge_Any(prev_up, is_up) == prev_up

\* if was_up && !is_up                                            (line 885)
site_down_edge(prev_up, is_up) == prev_up /\ ~is_up

\* Faulty variant: a failed check keeps the last_down already recorded.
merge_last_down_KeepFirst(status, statuses) ==
    IF status.url \in DOMAIN statuses /\ IsSome(statuses[status.url].last_down)
      THEN [status EXCEPT !.last_down = statuses[status.url].last_down]
      ELSE status

\* let final_status = if is_up { SiteStatus { last_down: prev_last_down,
\* ..status } } else { status }                             (lines 871-882)
merge_last_down(status, statuses) ==
    IF status.is_up
      THEN [status EXCEPT !.last_down =
                IF status.url \in DOMAIN statuses
                  THEN statuses[status.url].last_down ELSE None]
      ELSE status

\* let site_check_interval = if last_interval_secs == 10 { 6 } else { 2 }
\*                                                              (line 1203)
site_check_interval(last_secs) ==
    IF last_secs = 10 THEN 6 ELSE 2

\* The tick whose number is a multiple of site_check_interval enters
\* check_all_sites: that many sleeps have passed since the previous sweep
\* (lines 1203-1205, 1225); let monitors = ...clone() (lines 851-852).
SweepStart ==
    /\ swpc = "idle"
    /\ locks["site_monitors"] = "free"
    /\ nsweeps < MaxSweeps
    /\ nsweeps' = nsweeps + 1
    /\ now' = now + site_check_interval(ping_interval_secs) * ping_interval_secs
    /\ sweep_monitors' = SelectSeq(site_monitors, LAMBDA m : m.enabled)
    /\ sweep_idx' = 1
    /\ any_changed' = FALSE
    /\ swpc' = IF sweep_monitors' = <<>> THEN "emit" ELSE "was_up"
    /\ UNCHANGED <<was_up, final_status>>
    /\ UNCHANGED <<extVars, regVars, svcVars, taskVars, schedVars, gateVars, ipVars, ipLocals,
                   siteVars, outVars>>

\* Faulty variant: a URL without a recorded status counts as previously down.
SweepReadPrev_DefaultDown ==
    /\ swpc = "was_up"
    /\ locks["site_statuses"] = "free"
    /\ LET url == sweep_monitors[sweep_idx].url
       IN  was_up' = IF url \in DOMAIN site_statuses
                       THEN site_statuses[url].is_up ELSE FALSE
    /\ swpc' = "check"
    /\ UNCHANGED <<sweep_monitors, sweep_idx, any_changed, final_status, nsweeps>>
    /\ UNCHANGED <<extVars, regVars, svcVars, taskVars, schedVars, gateVars, ipVars, ipLocals,
                   siteVars, outVars, now>>

\* let was_up = statuses.get(&monitor.url).map(|s| s.is_up).unwrap_or(true)
\*                                                          (lines 856-859)
SweepReadPrev ==
    /\ swpc = "was_up"
    /\ locks["site_statuses"] = "free"
    /\ LET url == sweep_monitors[sweep_idx].url
       IN  was_up' = IF url \in DOMAIN site_statuses
                       THEN site_statuses[url].is_up ELSE TRUE
    /\ swpc' = "check"
    /\ UNCHANGED <<sweep_monitors, sweep_idx, any_changed, final_status, nsweeps>>
    /\ UNCHANGED <<extVars, regVars, svcVars, taskVars, schedVars, gateVars, ipVars, ipLocals,
                   siteVars, outVars, now>>

\* check_site(&monitor.url).await returned; the change flag, the merged
\* status and the notification (lines 862-893)
SweepCheck(connected) ==
    /\ swpc = "check"
    /\ connected => locks["site_statuses"] = "free"
    /\ LET m == sweep_monitors[sweep_idx]
           status == check_site(m.url, connected, now)
       IN  /\ any_changed' = (any_changed \/ was_up # status.is_up)
           /\ final_status' = merge_last_down(status, site_statuses)
           /\ notifications' =
                IF site_down_edge(was_up, status.is_up)
                  THEN Append(notifications,
                              [title |-> "Site Down Alert",
                               body |-> IF IsSome(m.name) THEN Unwrap(m.name)
                                        ELSE m.url,
                               at |-> now])
                  ELSE notifications
    /\ swpc' = "store"
    /\ UNCHANGED <<sweep_monitors, sweep_idx, was_up, nsweeps, emitted>>
    /\ UNCHANGED <<extVars, regVars, svcVars, taskVars, schedVars, gateVars, ipVars, ipLocals,
                   siteVars, now>>

\* site_statuses.insert(monitor.url.clone(), final_status) and the next
\* iteration (lines 896-901)
SweepStore ==
    /\ swpc = "store"
    /\ locks["site_statuses"] = "free"
    /\ site_statuses' = MapInsert(site_statuses, final_status.url, final_status)
    /\ sweep_idx' = sweep_idx + 1
    /\ swpc' = IF sweep_idx < Len(sweep_monitors) THEN "was_up" ELSE "emit"
    /\ UNCHANGED <<site_monitors, sweep_monitors, was_up, any_changed,
                   final_status, nsweeps>>
    /\ UNCHANGED <<extVars, regVars, svcVars, taskVars, schedVars, gateVars, ipVars, ipLocals,
                   outVars, now>>

\* if any_changed { emit("site-status-update", &statuses) }  (lines 904-909)
SweepEnd ==
    /\ swpc = "emit"
    /\ any_changed => locks["site_statuses"] = "free"
    /\ emitted' = IF any_changed
                    THEN Append(emitted, [name |-> "site-status-update",
                                          payload |-> site_statuses])
                    ELSE emitted
    /\ swpc' = "idle"
    /\ UNCHANGED notifications
    /\ UNCHANGED <<sweep_monitors, sweep_idx, was_up, any_changed,
                   final_status, nsweeps>>
    /\ UNCHANGED <<extVars, regVars, svcVars, taskVars, schedVars, gateVars, ipVars, ipLocals,
                   siteVars, now>>

\* no sweep in progress
InitSweep ==
    /\ swpc = "idle"
    /\ sweep_monitors = <<>>
    /\ sweep_idx = 1
    /\ was_up = TRUE
    /\ any_changed = FALSE
    /\ final_status = check_site("a.com", TRUE, 0)
    /\ nsweeps = 0

\* AppState::default() (lib.rs 201-202)
InitSite ==
    /\ site_monitors = <<>>
    /\ site_statuses = <<>>
    /\ InitSweep

-----------------------------------------------------------------------------
(* The background service: one whole iteration of its loop (lib.rs         *)
(* 1100-1225), save_history_async and save_history (1067-1081, 1250-1275)  *)

\* let vpn_check_interval = if last_interval_secs == 10 { 6 } else { 2 }
\*                                                              (line 1209)
vpn_check_interval(last_secs) == IF last_secs = 10 THEN 6 ELSE 2

\* Faulty variant: no offset at the other intervals.
vpn_offset_Zero(last_secs) == IF last_secs = 10 THEN 3 ELSE 0

\* let vpn_offset = if last_interval_secs == 10 { 3 } else { 1 } (line 1210)
vpn_offset(last_secs) == IF last_secs = 10 THEN 3 ELSE 1

\* let save_interval = if last_interval_secs == 10 { 30 } else { 10 }
\*                                                              (line 1216)
save_interval(last_secs) == IF last_secs = 10 THEN 30 ELSE 10

\* serde_json of one PingResult (lib.rs 29-36): the timestamp becomes an
\* RFC 3339 string, an absent latency or method becomes null, the method its
\* variant name
ToJsonSample(r) ==
    [timestamp |-> <<"rfc3339", r.timestamp>>,
     latency_ms |-> IF IsSome(r.latency_ms) THEN <<"number", Unwrap(r.latency_ms)>>
                    ELSE <<"null">>,
     target |-> r.target,
     method |-> IF IsSome(r.method) THEN <<"string", Unwrap(r.method)>>
                ELSE <<"null">>]

FromJsonSample(j) ==
    [timestamp |-> j.timestamp[2],
     latency_ms |-> IF j.latency_ms[1] = "null" THEN None ELSE Some(j.latency_ms[2]),
     target |-> j.target,
     method |-> IF j.method[1] = "null" THEN None ELSE Some(j.method[2])]

\* let data = SavedData { ..., notification_threshold_ms: 400, ... };
\* serde_json::to_string(&data)                            (lines 1262-1271)
save_history(history, tgts, primary, monitors, vpn, interval_secs) ==
    [history |-> [t \in DOMAIN history |->
                     [i \in 1..Len(history[t]) |-> ToJsonSample(history[t][i])]],
     targets |-> tgts,
     primary_target |-> primary,
     notification_threshold_ms |-> 400,
     site_monitors |-> monitors,
     vpn_settings |-> vpn,
     ping_interval_secs |-> interval_secs]

\* the samples of the snapshot targets, probed and appended in order
\*                                                        (lines 1115-1135)
RECURSIVE AppendSamples(_, _, _, _)
AppendSamples(hist, tgts, i, t) ==
    IF i > Len(tgts) THEN hist
    ELSE AppendSamples(
             AppendToHistory(hist, PingResult(tgts[i], ProbeAnswer(tgts[i]), t)),
             tgts, i + 1, t)

\* what a step of the service loop never touches
ServiceFrame ==
    UNCHANGED <<extVars, taskVars, gateVars, ipVars, siteVars, outVars, idx,
                targets, primary_target, ping_interval_secs, locks,
                is_system_sleeping>>

\* if is_system_sleeping.load() { sleep(1 s); continue; }  tick_count += 1
\*                                                        (lines 1100-1108)
ServiceLoopHead ==
    /\ spc = "loop"
    /\ IF is_system_sleeping
         THEN /\ nnaps < MaxNaps
              /\ spc' = "nap"
              /\ UNCHANGED tick_count
         ELSE /\ tick_count < MaxServiceTicks
              /\ tick_count' = tick_count + 1
              /\ spc' = "tick"
    /\ UNCHANGED <<snap_targets, snap_primary, ping_history, ipLocals, sweepVars,
                   last_interval_secs, disk, disk_job, nsaves, nnaps, now>>
    /\ ServiceFrame

\* Faulty variant: a nap counts as a tick.
ServiceNap_CountsTick ==
    /\ spc = "nap"
    /\ now' = now + 1
    /\ nnaps' = nnaps + 1
    /\ tick_count' = tick_count + 1
    /\ spc' = "loop"
    /\ UNCHANGED <<snap_targets, snap_primary, ping_history, ipLocals,
                   sweepVars, last_interval_secs, disk, disk_job, nsaves>>
    /\ ServiceFrame

\* tokio::time::sleep(Duration::from_secs(1)).await; continue; (lines 1104-1105)
ServiceNap ==
    /\ spc = "nap"
    /\ now' = now + 1
    /\ nnaps' = nnaps + 1
    /\ spc' = "loop"
    /\ UNCHANGED <<tick_count, snap_targets, snap_primary, ping_history, ipLocals,
                   sweepVars, last_interval_secs, disk, disk_job, nsaves>>
    /\ ServiceFrame

\* Faulty variant: the tick probes the primary target only.
ServicePing_PrimaryOnly ==
    /\ spc = "tick"
    /\ snap_targets' = targets
    /\ snap_primary' = primary_target
    /\ ping_history' = AppendSamples(ping_history, <<primary_target>>, 1, now)
    /\ spc' = "site"
    /\ UNCHANGED <<tick_count, ipLocals, sweepVars, last_interval_secs, disk,
                   disk_job, nsaves, nnaps, now>>
    /\ ServiceFrame

\* the snapshot of the registry and the probes of the tick (lines 1110-1135)
ServicePing ==
    /\ spc = "tick"
    /\ snap_targets' = targets
    /\ snap_primary' = primary_target
    /\ ping_history' = AppendSamples(ping_history, targets, 1, now)
    /\ spc' = "site"
    /\ UNCHANGED <<tick_count, ipLocals, sweepVars, last_interval_secs, disk,
                   disk_job, nsaves, nnaps, now>>
    /\ ServiceFrame

\* if tick_count % site_check_interval == 0 { check_all_sites().await }
\* up to the clone of the monitor list              (lines 1203-1205, 851-854)
ServiceSite ==
    /\ spc = "site"
    /\ locks["site_monitors"] = "free"
    /\ spc' = "vpn"
    /\ IF tick_count % site_check_interval(last_interval_secs) = 0
         THEN /\ nsweeps' = nsweeps + 1
              /\ sweep_monitors' = SelectSeq(site_monitors, LAMBDA m : m.enabled)
              /\ sweep_idx' = 1
              /\ any_changed' = FALSE
              /\ swpc' = IF sweep_monitors' = <<>> THEN "emit" ELSE "was_up"
              /\ UNCHANGED <<was_up, final_status>>
         ELSE UNCHANGED sweepVars
    /\ UNCHANGED <<tick_count, snap_targets, snap_primary, ping_history, ipLocals,
                   last_interval_secs, disk, disk_job, nsaves, nnaps, now>>
    /\ ServiceFrame

\* check_all_sites has returned;
\* if tick_count % vpn_check_interval == vpn_offset { check_ip_change().await }
\* up to the test of settings.enabled             (lines 1209-1212, 914-919)
ServiceVpn ==
    /\ spc = "vpn"
    /\ swpc = "idle"
    /\ spc' = "save"
    /\ IF tick_count % vpn_check_interval(last_interval_secs)
             = vpn_offset(last_interval_secs)
         THEN /\ nchecks' = nchecks + 1
              /\ ip_settings' = vpn_settings
              /\ ipc' = IF vpn_settings.enabled THEN "fetch" ELSE "idle"
              /\ UNCHANGED <<ip_current, ip_change>>
         ELSE UNCHANGED ipLocals
    /\ UNCHANGED <<tick_count, snap_targets, snap_primary, ping_history, sweepVars,
                   last_interval_secs, disk, disk_job, nsaves, nnaps, now>>
    /\ ServiceFrame

\* check_ip_change has returned;
\* if tick_count % save_interval == 0 { save_history_async().await } up to
\* the spawn_blocking of the write               (lines 1216-1218, 1068-1079)
ServiceSave ==
    /\ spc = "save"
    /\ ipc = "idle"
    /\ spc' = "svc_sleep"
    /\ IF tick_count % save_interval(last_interval_secs) = 0
         THEN /\ nsaves' = nsaves + 1
              /\ disk_job' = Some(save_history(ping_history, targets, primary_target,
                                               site_monitors, vpn_settings,
                                               ping_interval_secs))
         ELSE UNCHANGED <<nsaves, disk_job>>
    /\ UNCHANGED <<tick_count, snap_targets, snap_primary, ping_history, ipLocals,
                   sweepVars, last_interval_secs, disk, nnaps, now>>
    /\ ServiceFrame

\* the blocking thread: std::fs::write(file_path, json)   (lines 1258-1274)
DiskWrite ==
    /\ IsSome(disk_job)
    /\ disk' = disk_job
    /\ disk_job' = None
    /\ UNCHANGED <<extVars, regVars, taskVars, schedVars, gateVars, ipVars, ipLocals,
                   siteVars, sweepVars, outVars, now>>
    /\ UNCHANGED <<is_system_sleeping, last_interval_secs, nsaves, nnaps>>

\* the blocking thread: create_dir_all or write returned an error, which
\* save_history_async ignores                             (lines 1077-1078)
DiskWriteFails ==
    /\ IsSome(disk_job)
    /\ disk_job' = None
    /\ UNCHANGED disk
    /\ UNCHANGED <<extVars, regVars, taskVars, schedVars, gateVars, ipVars, ipLocals,
                   siteVars, sweepVars, outVars, now>>
    /\ UNCHANGED <<is_system_sleeping, last_interval_secs, nsaves, nnaps>>

\* the spawned write has been awaited (line 1080); let interval_secs =
\* *ping_interval_secs; last_interval_secs = interval_secs; sleep(interval_secs)
\*                                                        (lines 1222-1225)
ServiceSleep ==
    /\ spc = "svc_sleep"
    /\ disk_job = None
    /\ last_interval_secs' = ping_interval_secs
    /\ now' = now + ping_interval_secs
    /\ spc' = "loop"
    /\ UNCHANGED <<tick_count, snap_targets, snap_primary, ping_history, ipLocals,
                   sweepVars, disk, disk_job, nsaves, nnaps>>
    /\ ServiceFrame

-----
(* Specification of the registry under concurrent handlers and scheduler *)

vars == <<regVars, taskVars, schedVars, compVars, now>>

\* AppState::default() (lib.rs 188-218): the registry
InitRegistry ==
    /\ targets = <<DefaultTarget>>
    /\ ping_history = [t \in {DefaultTarget} |-> <<>>]
    /\ primary_target = DefaultTarget
    /\ ping_interval_secs = 10
    /\ now = 0

\* AppState::default() (line 213), the locals of the service (lines
\* 1088-1089), and a data directory that may hold no file
\* display_mode: IconAndPing and last_tray_state: None (lines 198, 210); the
\* tray icon as setup builds it, the happy icon and the title "..."
\*                                                        (lines 1680-1687)
InitUi ==
    /\ display_mode = "IconAndPing"
    /\ last_tray_state = None
    /\ tray = [icon |-> "Happy", title |-> "..."]

\* no probe in progress
InitProbeIdle ==
    /\ net = <<None, None, None, None>>
    /\ ppc = "idle"
    /\ attempts = <<>>
    /\ probe_out = <<None, None>>

\* no loop body and no set_display_mode in progress
InitTickLocals ==
    /\ tick_result = [timestamp |-> 0, latency_ms |-> None, target |-> "",
                      method |-> None]
    /\ tick_mode = "IconAndPing"
    /\ tick_threshold = 400
    /\ sdm_primary = ""
    /\ save_copy = [history |-> <<>>, targets |-> <<>>, primary |-> ""]

InitExt ==
    /\ InitUi
    /\ InitProbeIdle
    /\ InitTickLocals
    /\ reply = None

InitService ==
    /\ is_system_sleeping = FALSE
    /\ last_interval_secs = 10
    /\ disk = None
    /\ disk_job = None
    /\ nsaves = 0
    /\ nnaps = 0
    /\ InitExt

\* no command in progress, the service about to enter its loop, no mutex held
InitTasks ==
    /\ locks = [l \in LockNames |-> "free"]
    /\ pc = [h \in Tasks |-> "idle"]
    /\ arg = [h \in Tasks |-> [op |-> "none", target |-> ""]]
    /\ ret = [h \in Tasks |-> "none"]
    /\ ncalls = [h \in Tasks |-> 0]
    /\ spc = "loop"
    /\ tick_count = 0
    /\ snap_targets = <<>>
    /\ snap_primary = ""
    /\ idx = 0

InitState ==
    /\ InitRegistry
    /\ InitTasks
    /\ InitService
    /\ InitAlerts
    /\ InitSite

Init == InitState

Next ==
    \/ \E h \in Tasks, t \in TargetIds : AddTarget(h, t)
    \/ \E h \in Tasks : AddTargetHistory(h)
    \/ \E h \in Tasks, t \in TargetIds : RemoveTarget(h, t)
    \/ \E h \in Tasks : RemoveTargetHistory(h)
    \/ \E h \in Tasks : RemoveTargetPrimary(h)
    \/ \E h \in Tasks, t \in TargetIds : SetPrimaryTarget(h, t)
    \/ \E h \in Tasks : SetPrimaryWrite(h)
    \/ SchedLoopHead
    \/ SchedSnapTargets
    \/ SchedSnapPrimary
    \/ SchedPing
    \/ SchedSleep

Spec == Init /\ [][Next]_vars

-----------------------------------------------------------------------------
(* Properties of the TargetRegistry *)

AllIdle == \A h \in Tasks : pc[h] = "idle"
\* the step in which task h is called with operation op
Called(h, op) == ncalls'[h] = ncalls[h] + 1 /\ arg'[h].op = op

\* C1: remove_target on a list with exactly one member is rejected and leaves
\* the target list, the histories and the primary unchanged; on a list with at
\* least two members it is accepted, and when it reaches the primary it leaves
\* the primary unchanged unless the primary is the removed target, in which
\* case the new primary is a member of the remaining list.
C1_RemoveTargetPrimary ==
    [][\A h \in Tasks :
        /\ (Called(h, "remove_target") /\ Len(targets) = 1)
             => /\ ret'[h] = "Err" /\ pc'[h] = "idle"
                /\ targets' = targets
                /\ ping_history' = ping_history
                /\ primary_target' = primary_target
        /\ (Called(h, "remove_target") /\ Len(targets) >= 2)
             => /\ pc'[h] = "remove_target_history"
                /\ targets' = Retain(targets, arg'[h].target)
                /\ Len(targets') >= 1
        /\ (pc[h] = "remove_target_primary" /\ pc'[h] = "idle")
             => /\ ret'[h] = "Ok"
                /\ IF primary_target = arg[h].target
                     THEN /\ Contains(targets', primary_target')
                          /\ primary_target' # arg[h].target
                     ELSE primary_target' = primary_target
      ]_vars

\* C1 witness: one task removed the primary "1.1.1.1" of a two-member list and
\* a remaining member became primary; the other task's remove_target of the
\* then sole member was rejected.
C1_Witness ==
    \E h, g \in Tasks :
        /\ h # g
        /\ arg[h] = [op |-> "remove_target", target |-> DefaultTarget]
        /\ ret[h] = "Ok"
        /\ arg[g].op = "remove_target" /\ ret[g] = "Err"
        /\ ~Contains(targets, DefaultTarget)
        /\ Contains(targets, primary_target)

\* C2: whenever no command handler is in progress, the primary target is a
\* member of the target list.
C2_PrimaryIsMember ==
    AllIdle => Contains(targets, primary_target)

\* C3: the target list is never empty and never holds a duplicate, and an
\* add_target of a target already present changes neither the list nor the
\* histories.
C3_TargetsNonEmptyNoDup ==
    /\ [](Len(targets) >= 1 /\ NoDuplicates(targets))
    /\ [][\A h \in Tasks :
            (Called(h, "add_target") /\ Contains(targets, arg'[h].target))
              => /\ ret'[h] = "Ok" /\ pc'[h] = "idle"
                 /\ targets' = targets
                 /\ ping_history' = ping_history
        ]_vars

\* C3 witness: both tasks made one call each, add_target of the same new
\* target; the second found it present and the list holds it once.
C3_Witness ==
    /\ \A h \in Tasks :
          /\ ncalls[h] = 1
          /\ arg[h] = [op |-> "add_target", target |-> "8.8.8.8"]
          /\ ret[h] = "Ok"
    /\ targets = <<DefaultTarget, "8.8.8.8">>

-----------------------------------------------------------------------------------------------------------------------------------------------------
(* HistoryStore on its own: the background service appending to the        *)
(* history of the default registry, one sample per tick, with no command   *)
(* handler running.  The whole tick is one step here.  The service starts  *)
(* either from the empty history of a first launch or from a history that  *)
(* run() loaded from disk (load_history, lib.rs 1278-1321, 1627-1638),     *)
(* recorded by an earlier session at the same interval.                    *)

\* timestamp of the k-th sample ever recorded (samples are ping_interval_secs apart)
TickTime(k) == (k - 1) * ping_interval_secs

\* lengths of the history found on disk at startup
LoadedLens == {0, HistoryCap - 2}

InitHist ==
    /\ targets = <<DefaultTarget>>
    /\ primary_target = DefaultTarget
    /\ ping_interval_secs = 10
    /\ \E n \in LoadedLens :
          /\ ping_history = [t \in {DefaultTarget} |->
                 [k \in 1..n |-> PingResult(DefaultTarget, ProbeAnswer(DefaultTarget),
                                            TickTime(k))]]
          /\ now = TickTime(n + 1)
    /\ InitTasks
    /\ InitService
    /\ InitAlerts
    /\ InitSite

HistTick ==
    /\ spc = "loop"
    /\ tick_count < MaxAppends
    /\ tick_count' = tick_count + 1
    /\ ping_history' =
         AppendToHistory(ping_history,
                         PingResult(DefaultTarget, ProbeAnswer(DefaultTarget), now))
    /\ now' = now + ping_interval_secs
    /\ UNCHANGED <<targets, primary_target, ping_interval_secs, locks>>
    /\ UNCHANGED <<spc, snap_targets, snap_primary, idx>>
    /\ SchedFrame

SpecHist == InitHist /\ [][HistTick]_vars

\* number of samples recorded for the default target so far
Recorded == now \div ping_interval_secs

\* C4: after every append no history is longer than 8640 samples, and once
\* more than 8640 samples have been appended the history holds exactly the
\* 8640 most recent ones, oldest first.
C4_HistoryBounded ==
    /\ \A t \in DOMAIN ping_history : Len(ping_history[t]) <= 8640
    /\ LET h == ping_history[DefaultTarget]
       IN  /\ Recorded <= 8640 => Len(h) = Recorded
           /\ Recorded > 8640 => Len(h) = 8640
           /\ \A i \in 1..Len(h) :
                 h[i].timestamp = TickTime(Recorded - Len(h) + i)

\* C4 witness: the service has appended more samples than the capacity leaves
\* room for, and the oldest ones are gone.
C4_Witness ==
    /\ tick_count > 2
    /\ Recorded > 8640 + 2
    /\ Len(ping_history[DefaultTarget]) = 8640
    /\ ping_history[DefaultTarget][1].timestamp = TickTime(Recorded - 8640 + 1)

-----------------------------------------------------------------------------------------------------------------------------------------------------
(* The notification block of the tick with the clock.                      *)

NextGate ==
    \/ \E a \in AlertProbeAnswers : SchedNotify(a)
    \/ \E d \in GateTimeSteps : TimePasses(d)

SpecGate == Init /\ [][NextGate]_vars

\* a step of SchedNotify
SampleEvaluated == Len(emitted') = Len(emitted) + 1

\* the sample SchedNotify has just emitted
LastSample == emitted'[Len(emitted')].payload

OverThreshold(r) ==
    IsSome(r.latency_ms) /\ Unwrap(r.latency_ms) > notification_threshold_ms

\* no send before, or at least the cooldown elapsed since the last one
CooldownOver(last, t, cooldown) == last = None \/ t - Unwrap(last) >= cooldown

\* C5: a high-latency notification is allowed iff none was sent before or at
\* least 60 s have elapsed since the last one sent (suppressed after 10 s,
\* allowed after exactly 60 s and after 61 s), and every notification sent
\* records its send time.
C5_CooldownGate ==
    [][SampleEvaluated /\ OverThreshold(LastSample)
         => /\ (notifications' # notifications)
                  <=> CooldownOver(last_notification, now, 60)
            /\ (notifications' # notifications) => last_notification' = Some(now)]_vars

-----------------------------------------------------------------------------
(* The identity check with the clock and set_vpn_settings.                 *)

NextIp ==
    \/ CheckIpStart
    \/ CheckIpFetchErr
    \/ \E c \in IpInfos : CheckIpDetect(c)
    \/ CheckIpNotify
    \/ CheckIpStore
    \/ \E v \in VpnSettingsChoices : SetVpnSettings(v)
    \/ \E d \in IpTimeSteps : TimePasses(d)

SpecIp == Init /\ [][NextIp]_vars

\* a step of CheckIpDetect that found a cached identity to compare with
DetectStep == ipc = "fetch" /\ ipc' \in {"notify", "store"} /\ IsSome(ip_info)

\* C8: the comparison of the cached IpInfo with the fetched one reports the
\* first difference in the order country_code, ip, isp and only that one:
\* CountryChanged when the country code differs (also when the ip differs too),
\* else IpChanged when the ip differs, else IspChanged when the isp differs,
\* and no event when the three are equal.
C8_ClassificationOrder ==
    [][DetectStep =>
        LET p == Unwrap(ip_info)
            c == ip_current'
        IN  /\ ip_change' = None
                 <=> /\ p.country_code = c.country_code
                     /\ p.ip = c.ip
                     /\ p.isp = c.isp
            /\ IsSome(ip_change') =>
                 /\ Unwrap(ip_change').change_type =
                        IF p.country_code # c.country_code THEN "CountryChanged"
                        ELSE IF p.ip # c.ip THEN "IpChanged"
                        ELSE "IspChanged"
                 /\ Unwrap(ip_change').previous = Some(p)
                 /\ Unwrap(ip_change').current = c
                 /\ Len(emitted') = Len(emitted) + 1
                 /\ Len(network_change_history') = Len(network_change_history) + 1]_vars

\* a check classified a change of country and address together as CountryChanged
C8_Witness ==
    /\ ipc = "notify"
    /\ Unwrap(ip_change).change_type = "CountryChanged"
    /\ Unwrap(Unwrap(ip_change).previous).ip # Unwrap(ip_change).current.ip

\* C10: every identity change a background check detects emits a
\* network-change event carrying it, whether or not a notification is sent
\* for it.
C10_ChangeAlwaysEmitted ==
    [][DetectStep =>
        LET p == Unwrap(ip_info)
            c == ip_current'
        IN  (p.country_code # c.country_code \/ p.ip # c.ip \/ p.isp # c.isp)
              => /\ Len(emitted') = Len(emitted) + 1
                 /\ emitted'[Len(emitted')].name = "network-change"
                 /\ emitted'[Len(emitted')].payload.previous = Some(p)
                 /\ emitted'[Len(emitted')].payload.current = c]_vars

\* with the default settings never changed, two changes of country were
\* emitted and the checks are over: the first was notified, the second fell
\* inside the cooldown and was not
C10_Witness ==
    /\ ipc = "idle"
    /\ ncalls["h1"] = 0
    /\ Len(emitted) = 2
    /\ emitted[1].payload.change_type = "CountryChanged"
    /\ emitted[2].payload.change_type = "CountryChanged"
    /\ Len(notifications) = 1

\* the fetch of the check in progress has succeeded
FetchSucceeded == ipc \in {"notify", "store"}

\* C11: a check whose fetch succeeded cannot end without writing the cache: it
\* keeps the fetched IpInfo until its last step, and that step sets the cached
\* IpInfo to the fetched value and the last-check timestamp to the current
\* time, whether or not a change was detected or a notification sent.
C11_CacheAlwaysRefreshed ==
    [][FetchSucceeded =>
         /\ ip_current' = ip_current
         /\ ipc' = "idle" =>
              /\ ipc = "store"
              /\ ip_info' = Some(ip_current)
              /\ ip_info_last_check' = Some(now)]_vars

\* the second check ended at 30 s having detected no change and sent
\* nothing, and the cache holds what it fetched, stamped 30
C11_Witness ==
    /\ ipc = "idle"
    /\ nchecks = 2
    /\ now = 30
    /\ ip_change = None
    /\ emitted = <<>>
    /\ notifications = <<>>
    /\ ip_info = Some(ip_current)
    /\ ip_info_last_check = Some(30)

-----------------------------------------------------------------------------
(* should_send_vpn_notification and the block that calls it (lines         *)
(* 959-985), applied to every change event, settings snapshot, last send   *)
(* and clock of a bounded set.                                             *)

ChangeTypes == {"CountryChanged", "IpChanged", "IspChanged", "Initial"}

\* enum NetworkChangeType and struct NetworkChangeEvent (lib.rs 88-103)
ChangeEvents ==
    { [change_type |-> ty,
       previous |-> IF ty = "Initial" THEN None
                    ELSE Some(MkIpInfo("1.1.1.1", "US", Some("isp-a"))),
       current |-> MkIpInfo("2.2.2.2", "DE", Some("isp-b")),
       timestamp |-> t, is_expected |-> x] :
        ty \in ChangeTypes, t \in {0}, x \in BOOLEAN }

InitVpnNotify ==
    /\ InitRegistry
    /\ InitTasks
    /\ InitService
    /\ InitSite
    /\ notification_threshold_ms = 400
    /\ last_notification = None
    /\ vpn_settings \in AllVpnSettings
    /\ ip_settings = vpn_settings
    /\ ip_info = Some(MkIpInfo("1.1.1.1", "US", Some("isp-a")))
    /\ ip_info_last_check = Some(0)
    /\ ip_current = MkIpInfo("2.2.2.2", "DE", Some("isp-b"))
    /\ last_ip_check_was_manual = FALSE
    /\ last_vpn_notification \in {None, Some(0)}
    /\ notifications =
          IF IsSome(last_vpn_notification)
            THEN <<[title |-> "Network: IP Changed", body |-> "1.1.1.1", at |-> 0]>>
            ELSE <<>>
    /\ \E c \in ChangeEvents :
          /\ ip_change = Some(c)
          /\ network_change_history = <<c>>
          /\ emitted = network_change_emit(c)
          /\ network_stability = update_stability(
                 [changes_last_hour |-> 0, last_country_change |-> None,
                  last_ip_change |-> None], c, 0)
    /\ ipc = "notify"
    /\ nchecks = 1

NextVpnNotify ==
    \/ \E d \in GateTimeSteps : TimePasses(d)
    \/ CheckIpNotify
    \/ CheckIpStore

SpecVpnNotify == InitVpnNotify /\ [][NextVpnNotify]_vars

\* a step of CheckIpNotify
NotifyStep == ipc = "notify" /\ ipc' = "store"

\* C9: a VPN notification is sent for a detected change only if the change is
\* not marked is_expected, no VPN notification was sent less than 30 s ago,
\* and the change is CountryChanged with alert_on_country_change set or
\* IpChanged with alert_on_ip_change set (so never for IspChanged or Initial);
\* the last-VPN-notification time is updated exactly when one is sent.
C9_VpnNotificationGate ==
    [][NotifyStep =>
        LET c == Unwrap(ip_change)
            sent == notifications' # notifications
        IN  /\ sent =>
                 /\ ~c.is_expected
                 /\ CooldownOver(last_vpn_notification, now, 30)
                 /\ \/ c.change_type = "CountryChanged"
                          /\ ip_settings.alert_on_country_change
                    \/ c.change_type = "IpChanged"
                          /\ ip_settings.alert_on_ip_change
            /\ last_vpn_notification' =
                 IF sent THEN Some(now) ELSE last_vpn_notification]_vars

\* a notification was sent exactly 30 s after the previous one
C9_Witness ==
    /\ ipc = "store"
    /\ Len(notifications) = 2
    /\ notifications[1].at = 0
    /\ notifications[2].title = "VPN Alert: Location Changed!"
    /\ notifications[2].at = 30
    /\ last_vpn_notification = Some(30)

-----------------------------------------------------------------------------
(* The site sweeps with add_site_monitor and remove_site_monitor; the      *)
(* monitor list is the default or the one load_history returned (line      *)
(* 1634).                                                                  *)

InitSiteLoaded ==
    /\ InitRegistry
    /\ InitTasks
    /\ InitService
    /\ InitAlerts
    /\ site_monitors \in {<<>>, <<MkMonitor("a.com")>>}
    /\ site_statuses = <<>>
    /\ InitSweep

NextSite ==
    \/ \E u \in SiteUrls : AddSiteMonitor(u)
    \/ \E u \in SiteUrls : RemoveSiteMonitor(u)
    \/ SweepStart
    \/ SweepReadPrev
    \/ \E c \in BOOLEAN : SweepCheck(c)
    \/ SweepStore
    \/ SweepEnd

SpecSite == InitSiteLoaded /\ [][NextSite]_vars

\* the URL the sweep is at
SweepUrl == sweep_monitors[sweep_idx].url

\* the steps of SweepReadPrev, SweepCheck and SweepStore
ReadPrevStep == swpc = "was_up" /\ swpc' = "check"
CheckStep == swpc = "check" /\ swpc' = "store"
StoreStep == swpc = "store" /\ swpc' # "store"

RecordedUp(url) ==
    IF url \in DOMAIN site_statuses THEN site_statuses[url].is_up ELSE TRUE

RecordedLastDown(url) ==
    IF url \in DOMAIN site_statuses THEN site_statuses[url].last_down ELSE None

\* C6: in every sweep a site-down notification for a URL is sent iff the
\* status the sweep found recorded for the URL was up (or none was recorded)
\* and the sweep's check of the URL failed; no other step of a sweep sends
\* one, so a site that stays down or comes back up sends none.
C6_SiteDownOnEdgeOnly ==
    [][/\ ReadPrevStep => was_up' = RecordedUp(SweepUrl)
       /\ CheckStep =>
            /\ (notifications' # notifications)
                 <=> (was_up /\ ~final_status'.is_up)
            /\ (notifications' # notifications) =>
                 notifications' = Append(notifications,
                     [title |-> "Site Down Alert", body |-> SweepUrl, at |-> now])
       /\ ~CheckStep => notifications' = notifications]_vars

\* five sweeps of a.com answered up, up, down, down, up: one notification,
\* sent by the third sweep
C6_Witness ==
    /\ nsweeps = 5
    /\ swpc = "idle"
    /\ ncalls["h1"] = 0
    /\ "a.com" \in DOMAIN site_statuses
    /\ site_statuses["a.com"].is_up
    /\ site_statuses["a.com"].last_down = Some(240)
    /\ notifications = <<[title |-> "Site Down Alert", body |-> "a.com", at |-> 180]>>

\* C7 as amended: a check that fails sets the site's last_down to the time of
\* the check, in every sweep and not only on the up-to-down edge; a check that
\* succeeds keeps the last_down found recorded (none if no status is
\* recorded); the status stored by the sweep carries that value.
C7_LastDownSetOnEveryFailure ==
    [][/\ CheckStep =>
            final_status'.last_down =
                IF final_status'.is_up THEN RecordedLastDown(SweepUrl)
                ELSE Some(now)
       /\ StoreStep =>
            /\ SweepUrl \in DOMAIN site_statuses'
            /\ site_statuses'[SweepUrl].last_down = final_status.last_down]_vars

\* five sweeps of a.com answered up, up, down, down, up: last_down is the time
\* of the fourth sweep and the final up has kept it
C7_Witness ==
    /\ nsweeps = 5
    /\ swpc = "idle"
    /\ ncalls["h1"] = 0
    /\ Len(notifications) = 1
    /\ notifications[1].at = 180
    /\ site_statuses = [u \in {"a.com"} |->
            [url |-> "a.com", is_up |-> TRUE, latency_ms |-> Some(25),
             last_check |-> 300, last_down |-> Some(240)]]

\* C7 as stated: a site's last_down changes only in a sweep where the site
\* goes from up to down; a second down in a row leaves it unchanged and a
\* recovery retains it.
C7_LastDownOnlyOnEdge ==
    [][StoreStep /\ SweepUrl \in DOMAIN site_statuses =>
         (site_statuses'[SweepUrl].last_down # site_statuses[SweepUrl].last_down
            => site_statuses[SweepUrl].is_up /\ ~site_statuses'[SweepUrl].is_up)]_vars

-----------------------------------------------------------------------------
(* The service loop on its own, started with the ping interval that run()  *)
(* took from the file (line 1636) or the default; the identity service     *)
(* answers the same identity or fails.                                     *)

\* ping intervals found in the file at startup
LoadedIntervals == {5, 10, 30, 120}

\* the identity the service sees throughout
SteadyIpInfo == MkIpInfo("1.1.1.1", "US", Some("isp-a"))

InitService_Loaded ==
    /\ targets = <<DefaultTarget>>
    /\ ping_history = [t \in {DefaultTarget} |-> <<>>]
    /\ primary_target = DefaultTarget
    /\ ping_interval_secs \in LoadedIntervals
    /\ now = 0
    /\ InitTasks
    /\ InitService
    /\ InitAlerts
    /\ InitSite

NextService ==
    \/ ServiceLoopHead
    \/ ServicePing
    \/ ServiceSite
    \/ SweepEnd
    \/ ServiceVpn
    \/ CheckIpFetchErr
    \/ CheckIpDetect(SteadyIpInfo)
    \/ CheckIpStore
    \/ ServiceSave
    \/ DiskWrite
    \/ DiskWriteFails
    \/ ServiceSleep

SpecService == InitService_Loaded /\ [][NextService]_vars

\* the step of the service that reaches the identity check of a tick
VpnStep == spc = "vpn" /\ spc' = "save"

\* the tick in progress is an identity tick
IdentityTick ==
    tick_count % vpn_check_interval(last_interval_secs) = vpn_offset(last_interval_secs)

\* C12: a background check whose fetch fails ends there, leaving the cached
\* IpInfo, the last-check timestamp, the change log, the stability counters
\* and the last-VPN-notification time unchanged, sending no notification and
\* emitting no event; and every identity tick starts a check with a new fetch,
\* whatever became of the previous one.
C12_FailedFetchChangesNothing ==
    [][/\ (ipc = "fetch" /\ ipc' = "idle") =>
            UNCHANGED <<ip_info, ip_info_last_check, network_change_history,
                        network_stability, last_vpn_notification,
                        notifications, emitted>>
       /\ (VpnStep /\ IdentityTick) =>
            /\ nchecks' = nchecks + 1
            /\ vpn_settings.enabled => ipc' = "fetch"]_vars

\* the fetch of the first identity tick failed, nothing was cached, and the
\* second identity tick has started its own fetch
C12_Witness ==
    /\ nchecks = 2
    /\ ipc = "fetch"
    /\ ip_info = None
    /\ ip_info_last_check = None
    /\ emitted = <<>>
    /\ notifications = <<>>

-----------------------------------------------------------------------------
(* The command handlers that can refuse a call (lib.rs 271-301, 642-697)   *)

\* urls of monitors that earlier add_site_monitor calls put in the list
UrlPool == <<"s1.com", "s2.com", "s3.com", "s4.com", "s5.com", "s6.com",
             "s7.com", "s8.com", "s9.com", "s10.com", "s11.com">>

\* the list after the first n urls of the pool were added to an empty list
AddedMonitors(n) == [i \in 1..n |-> MkMonitor(UrlPool[i])]

\* the state when the first command arrives: the default registry, and a
\* monitor list that is empty or one short of the limit
InitCommands ==
    /\ InitRegistry
    /\ InitTasks
    /\ InitService
    /\ InitAlerts
    /\ site_monitors \in {<<>>, AddedMonitors(MaxSiteMonitors - 1)}
    /\ site_statuses = <<>>
    /\ InitSweep

\* the commands of task h1 that complete in one step; a task runs one command
\* at a time
CmdAddSiteMonitor(url) ==
    /\ pc["h1"] = "idle"
    /\ TotalCalls < MaxCalls
    /\ add_site_monitor_call(url, MaxCalls)

CmdRemoveSiteMonitor(url) ==
    /\ pc["h1"] = "idle"
    /\ TotalCalls < MaxCalls
    /\ remove_site_monitor_call(url, MaxCalls)

CmdSetPingInterval(interval_secs) ==
    /\ pc["h1"] = "idle"
    /\ TotalCalls < MaxCalls
    /\ set_ping_interval_call(interval_secs, MaxCalls)

NextCommands ==
    \/ \E h \in Tasks, t \in TargetIds : AddTarget(h, t)
    \/ \E h \in Tasks : AddTargetHistory(h)
    \/ \E h \in Tasks, t \in TargetIds : RemoveTarget(h, t)
    \/ \E h \in Tasks : RemoveTargetHistory(h)
    \/ \E h \in Tasks : RemoveTargetPrimary(h)
    \/ \E h \in Tasks, t \in TargetIds : SetPrimaryTarget(h, t)
    \/ \E h \in Tasks : SetPrimaryWrite(h)
    \/ \E u \in SiteUrls : CmdAddSiteMonitor(u)
    \/ \E u \in SiteUrls : CmdRemoveSiteMonitor(u)
    \/ \E v \in IntervalChoices : CmdSetPingInterval(v)

SpecCommands == InitCommands /\ [][NextCommands]_vars

\* the step on which task h receives a command
CallStep(h) == ncalls'[h] = ncalls[h] + 1

\* the command of that step is one the claim lists as refused
MustReject(h) ==
    LET c == arg'[h]
    IN  \/ c.op = "remove_target" /\ Len(targets) = 1
        \/ c.op = "set_primary_target" /\ ~Contains(targets, c.target)
        \/ c.op = "add_site_monitor"
             /\ \/ \E i \in 1..Len(site_monitors) : site_monitors[i].url = c.target
                \/ Len(site_monitors) = 10
        \/ c.op = "set_ping_interval"
             /\ c.target \in {ToString(v) : v \in IntervalChoices \ (5..120)}

\* C13: remove_target on a one-member list, set_primary_target with a
\* non-member, add_site_monitor with a url already monitored or with ten
\* monitors present, and set_ping_interval outside [5,120] each return an
\* error; and a call that returns an error leaves every state field as it was
\* (only the call's own argument, result and count are recorded).
C13_RejectedCommandsChangeNothing ==
    [][\A h \in Tasks :
         CallStep(h) =>
           /\ MustReject(h) => ret'[h] = "Err"
           /\ ret'[h] = "Err" =>
                UNCHANGED <<targets, ping_history, primary_target,
                            ping_interval_secs, locks, pc, schedVars,
                            compVars, now>>]_vars

\* C13 witness: the tenth monitor was added, the eleventh was refused on task
\* h1, and task h2 was refused a primary target that is not a member.
C13_Witness ==
    /\ Len(site_monitors) = 10
    /\ arg["h1"] = [op |-> "add_site_monitor", target |-> "b.com"]
    /\ ret["h1"] = "Err"
    /\ arg["h2"].op = "set_primary_target"
    /\ ret["h2"] = "Err"

-----------------------------------------------------------------------------
(* set_ping_interval while the background service runs (lib.rs 642-652,    *)
(* 1221-1225)                                                              *)

SetPingInterval(interval_secs) ==
    set_ping_interval_call(interval_secs, MaxIntervalCalls)

NextInterval ==
    \/ \E v \in IntervalChoices : SetPingInterval(v)
    \/ ServiceLoopHead
    \/ ServicePing
    \/ ServiceSite
    \/ SweepEnd
    \/ ServiceVpn
    \/ CheckIpFetchErr
    \/ CheckIpDetect(SteadyIpInfo)
    \/ CheckIpStore
    \/ ServiceSave
    \/ DiskWrite
    \/ DiskWriteFails
    \/ ServiceSleep

\* the service started on the default state, interval 10
SpecInterval == Init /\ [][NextInterval]_vars

\* the step on which the service sleeps between two ticks
SleepStep == spc = "svc_sleep" /\ spc' = "loop"

\* C14: set_ping_interval accepts 5 and 120 and writes them, refuses 4 and 121
\* and writes nothing; from the default 10 the interval is within [5,120]
\* before and after every step, and every sleep of the service between two
\* ticks lasts a number of seconds within [5,120].
C14_IntervalInRange ==
    [][/\ ping_interval_secs \in 5..120
       /\ ping_interval_secs' \in 5..120
       /\ \A v \in IntervalChoices :
            (CallStep("h1") /\ arg'["h1"] = [op |-> "set_ping_interval",
                                             target |-> ToString(v)]) =>
              IF v \in 5..120
                THEN ret'["h1"] = "Ok" /\ ping_interval_secs' = v
                ELSE ret'["h1"] = "Err" /\ UNCHANGED ping_interval_secs
       /\ SleepStep => (now' - now) \in 5..120]_vars

\* C14 witness: 120 was accepted and the service has slept 120 seconds after
\* a tick.
C14_Witness ==
    /\ arg["h1"] = [op |-> "set_ping_interval", target |-> "120"]
    /\ ret["h1"] = "Ok"
    /\ ping_interval_secs = 120
    /\ last_interval_secs = 120
    /\ spc = "loop"

-----------------------------------------------------------------------------
(* add_site_monitor and remove_site_monitor from an empty list             *)
(* (lib.rs 662-697)                                                        *)

\* the urls a user adds: one already in the pool's prefix of the list's length
\* (present, or removed earlier) or the next url of the pool
AddChoices(monitors) ==
    {UrlPool[i] : i \in 1..(IF Len(monitors) < Len(UrlPool)
                              THEN Len(monitors) + 1 ELSE Len(UrlPool))}

\* the urls a user removes
RemoveChoices == {UrlPool[1], UrlPool[2]}

MonitorsAdd(url) == add_site_monitor_call(url, MaxMonitorCalls)

MonitorsRemove(url) == remove_site_monitor_call(url, MaxMonitorCalls)

NextMonitors ==
    \/ \E u \in AddChoices(site_monitors) : MonitorsAdd(u)
    \/ \E u \in RemoveChoices : MonitorsRemove(u)

\* the default state: site_monitors is empty
SpecMonitors == Init /\ [][NextMonitors]_vars

\* C15: after any sequence of add_site_monitor and remove_site_monitor calls
\* on an empty list, the list holds at most ten monitors and no two of them
\* have the same url.
C15_MonitorsBoundedUnique ==
    /\ Len(site_monitors) <= 10
    /\ \A i, j \in 1..Len(site_monitors) :
         site_monitors[i].url = site_monitors[j].url => i = j

\* C15 witness: the list holds ten monitors after a removal and a second add
\* of the removed url moved it behind the others, and the add of an eleventh
\* url has just been refused.
C15_Witness ==
    /\ Len(site_monitors) = 10
    /\ site_monitors[1].url = UrlPool[2]
    /\ arg["h1"] = [op |-> "add_site_monitor", target |-> UrlPool[11]]
    /\ ret["h1"] = "Err"

-----------------------------------------------------------------------------
(* PersistenceGateway: save_history, load_history and run                  *)
(* (lib.rs 1250-1321, 1627-1638)                                           *)

\* chrono::Duration::hours(24), in seconds                       (line 1284)
DaySecs == 86400

\* load_history: history_v2.json parsed as SavedData, every history filtered
\* by r.timestamp > cutoff; without a file, the defaults of lines 1318-1320.
\* file is what the data directory holds, t is Utc::now().
load_history(file, t) ==
    IF file = None
      THEN [history |-> [x \in {DefaultTarget} |-> <<>>],
            targets |-> <<DefaultTarget>>,
            primary_target |-> DefaultTarget,
            site_monitors |-> <<>>,
            vpn_settings |-> MkVpnSettings(TRUE, TRUE, TRUE),
            ping_interval_secs |-> 10]
      ELSE LET data == file[1]
               cutoff == t - DaySecs
               pings(x) == [i \in 1..Len(data.history[x]) |->
                              FromJsonSample(data.history[x][i])]
           IN  [history |-> [x \in DOMAIN data.history |->
                               SelectSeq(pings(x), LAMBDA r : r.timestamp > cutoff)],
                targets |-> data.targets,
                primary_target |-> data.primary_target,
                site_monitors |-> data.site_monitors,
                vpn_settings |-> data.vpn_settings,
                ping_interval_secs |-> data.ping_interval_secs]

\* set_notification_threshold (lib.rs 304-312); task h1 issues it
SetNotificationThreshold(threshold_ms) ==
    /\ ncalls["h1"] < MaxSettingsCalls
    /\ ncalls' = [ncalls EXCEPT !["h1"] = @ + 1]
    /\ arg' = [arg EXCEPT !["h1"] = [op |-> "set_notification_threshold",
                                     target |-> ToString(threshold_ms)]]
    /\ ret' = [ret EXCEPT !["h1"] = "Ok"]
    /\ notification_threshold_ms' = threshold_ms
    /\ UNCHANGED <<pc, last_notification>>
    /\ UNCHANGED <<extVars, regVars, svcVars, schedVars, ipVars, ipLocals, siteVars,
                   sweepVars, outVars, now>>

\* the thresholds a user sets: the default and another one
ThresholdChoices == {200, 400}

\* save_history_async on a tick where the flush is due: the six fields are
\* cloned and handed to the blocking thread              (lines 1067-1078)
PersistFlush ==
    /\ disk_job = None
    /\ nsaves < MaxFlushes
    /\ nsaves' = nsaves + 1
    /\ disk_job' = Some(save_history(ping_history, targets, primary_target,
                                     site_monitors, vpn_settings,
                                     ping_interval_secs))
    /\ UNCHANGED <<is_system_sleeping, last_interval_secs, disk, nnaps>>
    /\ UNCHANGED <<extVars, regVars, taskVars, schedVars, gateVars, ipVars, ipLocals,
                   siteVars, sweepVars, outVars, now>>

\* how long the program is stopped before it is started again
RestartGaps == {60, DaySecs - 50, DaySecs}

\* The program is stopped and, d seconds later, started: run() builds the
\* AppState from load_history() and takes every other field from
\* AppState::default() (lines 1627-1638). The file, what was shown and emitted,
\* and the call counts stay.
Restart(d) ==
    /\ disk_job = None
    /\ \A h \in Tasks : pc[h] = "idle"
    /\ now < MaxRestartNow
    /\ now' = now + d
    /\ LET l == load_history(disk, now + d)
       IN  /\ ping_history' = l.history
           /\ targets' = l.targets
           /\ primary_target' = l.primary_target
           /\ site_monitors' = l.site_monitors
           /\ vpn_settings' = l.vpn_settings
           /\ ping_interval_secs' = l.ping_interval_secs
    /\ notification_threshold_ms' = 400
    /\ last_notification' = None
    /\ ip_info' = None
    /\ ip_info_last_check' = None
    /\ network_stability' = [changes_last_hour |-> 0, last_country_change |-> None,
                             last_ip_change |-> None]
    /\ network_change_history' = <<>>
    /\ last_ip_check_was_manual' = FALSE
    /\ last_vpn_notification' = None
    /\ site_statuses' = <<>>
    /\ is_system_sleeping' = FALSE
    /\ last_interval_secs' = 10
    /\ locks' = [k \in LockNames |-> "free"]
    /\ spc' = "loop"
    /\ tick_count' = 0
    /\ snap_targets' = <<>>
    /\ snap_primary' = ""
    /\ idx' = 0
    /\ ipc' = "idle"
    /\ ip_change' = None
    /\ swpc' = "idle"
    /\ UNCHANGED <<ip_settings, ip_current, nchecks>>
    /\ UNCHANGED <<sweep_monitors, sweep_idx, was_up, any_changed, final_status,
                   nsweeps>>
    /\ UNCHANGED <<disk, disk_job, nsaves, nnaps>>
    /\ display_mode' = "IconAndPing"
    /\ last_tray_state' = None
    /\ tray' = [icon |-> "Happy", title |-> "..."]
    /\ UNCHANGED <<probeVars, tickLocals, reply>>
    /\ UNCHANGED <<taskVars, outVars>>

\* the samples a target has collected when the flush comes: probed at 0, 50
\* and 100 s
CollectedSamples(t) ==
    <<PingResult(t, ProbeAnswer(t), 0), PingResult(t, ProbeAnswer(t), 50),
      PingResult(t, ProbeAnswer(t), 100)>>

\* a populated state: one or two targets with their samples, either of them
\* primary, no or one site monitor, any alert settings, any loaded interval
InitPersist ==
    /\ targets \in {<<DefaultTarget>>, <<DefaultTarget, "8.8.8.8">>}
    /\ ping_history = [t \in Range(targets) |-> CollectedSamples(t)]
    /\ primary_target \in Range(targets)
    /\ ping_interval_secs \in LoadedIntervals
    /\ now = 100
    /\ InitTasks
    /\ InitService
    /\ InitAlerts
    /\ site_monitors \in {<<>>, <<MkMonitor("a.com")>>}
    /\ site_statuses = <<>>
    /\ InitSweep

NextPersist ==
    \/ \E v \in ThresholdChoices : SetNotificationThreshold(v)
    \/ \E v \in VpnSettingsChoices : SetVpnSettings(v)
    \/ PersistFlush
    \/ DiskWrite
    \/ DiskWriteFails
    \/ \E d \in RestartGaps : Restart(d)

SpecPersist == InitPersist /\ [][NextPersist]_vars

\* the step on which the program is started again: under SpecPersist the clock
\* moves only while the program is stopped
RestartStep == now' # now

\* the file holds the save of the state the program is in
SavedIsCurrent ==
    disk = Some(save_history(ping_history, targets, primary_target,
                             site_monitors, vpn_settings, ping_interval_secs))

\* C16: when the state has been saved and the program loads it again, the
\* targets, the primary target, notification_threshold_ms, site_monitors,
\* vpn_settings and ping_interval_secs are those that were saved, and every
\* target's history is the saved one restricted to the samples newer than 24
\* hours at the time of the load, in the same order.
C16_SaveLoadRoundTrip ==
    [][(RestartStep /\ SavedIsCurrent) =>
         /\ targets' = targets
         /\ primary_target' = primary_target
         /\ notification_threshold_ms' = notification_threshold_ms
         /\ site_monitors' = site_monitors
         /\ vpn_settings' = vpn_settings
         /\ ping_interval_secs' = ping_interval_secs
         /\ ping_history' =
              [t \in DOMAIN ping_history |->
                 SelectSeq(ping_history[t],
                           LAMBDA r : r.timestamp > now' - DaySecs)]]_vars

-----------------------------------------------------------------------------
(* The sleep signal and the service loop (lib.rs 1100-1108, 1345-1357)     *)

\* the observer blocks of NSWorkspaceWillSleepNotification (b = TRUE) and
\* NSWorkspaceDidWakeNotification (b = FALSE)            (lines 1345-1357)
SetSleeping(b) ==
    /\ is_system_sleeping # b
    /\ is_system_sleeping' = b
    /\ UNCHANGED <<last_interval_secs, disk, disk_job, nsaves, nnaps>>
    /\ UNCHANGED <<extVars, regVars, taskVars, schedVars, gateVars, ipVars, ipLocals,
                   siteVars, sweepVars, outVars, now>>

NextSuspend ==
    \/ \E b \in BOOLEAN : SetSleeping(b)
    \/ ServiceLoopHead
    \/ ServiceNap
    \/ ServicePing
    \/ ServiceSite
    \/ SweepEnd
    \/ ServiceVpn
    \/ CheckIpDetect(SteadyIpInfo)
    \/ CheckIpStore
    \/ ServiceSave
    \/ DiskWrite
    \/ ServiceSleep

SpecSuspend == InitService_Loaded /\ [][NextSuspend]_vars

\* what the work of the service changes: the tick counter, the histories, the
\* sweeps, identity checks and flushes started, and what they write
WorkVars ==
    <<tick_count, ping_history, nsweeps, swpc, site_statuses, nchecks, ipc,
      ip_info, ip_info_last_check, nsaves, disk_job, disk, emitted,
      notifications, last_interval_secs>>

\* the loop is at its head having found, or about to find, the signal true, or
\* in the one-second sleep that follows
LoopSuspended == (spc = "loop" /\ is_system_sleeping) \/ spc = "nap"

\* C17 (amended): an iteration of the loop that finds the signal true does no
\* work: from the loop head with the signal true, and through the one-second
\* sleep, no probe is made, no sample appended, no sweep, identity check or
\* flush started and the tick counter stays; and whether the sweep, the
\* identity check and the flush run on a tick depends on the tick counter
\* alone, so the naps taken do not shift them.
C17_SuspendedIterationDoesNothing ==
    [][/\ LoopSuspended => UNCHANGED WorkVars
       /\ (spc = "site" /\ spc' = "vpn") =>
            (nsweeps' = nsweeps + 1
               <=> tick_count % site_check_interval(last_interval_secs) = 0)
       /\ (spc = "vpn" /\ spc' = "save") =>
            (nchecks' = nchecks + 1
               <=> tick_count % vpn_check_interval(last_interval_secs)
                     = vpn_offset(last_interval_secs))
       /\ (spc = "save" /\ spc' = "svc_sleep") =>
            (nsaves' = nsaves + 1
               <=> tick_count % save_interval(last_interval_secs) = 0)]_vars

\* C17 witness: two naps were taken, the service resumed, and the tenth tick
\* has run its sweep, the fifth, and its flush, the first.
C17_Witness ==
    /\ nnaps = 2
    /\ ~is_system_sleeping
    /\ tick_count = 10
    /\ nsweeps = 5
    /\ nsaves = 1
    /\ spc = "loop"

\* C17 as stated: on no step taken while the signal is true does the service
\* probe, append, sweep, check the identity, flush or count a tick.
C17_NoWorkWhileSignalTrue ==
    [][(is_system_sleeping /\ is_system_sleeping') => UNCHANGED WorkVars]_vars

-----------------------------------------------------------------------------
(* The sub-cadences of the service at a constant interval                  *)
(* (lib.rs 1201-1225)                                                      *)

\* target / interval rounded to the nearest whole number, halves upwards
RoundDiv(target, interval) == (2 * target + interval) \div (2 * interval)

K_site(interval) ==
    IF RoundDiv(60, interval) < 1 THEN 1 ELSE RoundDiv(60, interval)

K_persist(interval) ==
    IF RoundDiv(300, interval) < 1 THEN 1 ELSE RoundDiv(300, interval)

\* count events in n ticks are one every K ticks, whatever the phase and with
\* one event of slack for the first tick
OncePer(K, n, count) == (n \div K) - 1 <= count /\ count <= (n \div K) + 1

\* C18: with the interval held constant, after any number of completed ticks
\* the site sweeps and the identity checks started number one per
\* K_site = round(60 / interval) ticks and the flushes one per
\* K_persist = round(300 / interval) ticks.
C18_CadenceFollowsInterval ==
    spc = "loop" =>
      /\ OncePer(K_site(ping_interval_secs), tick_count, nsweeps)
      /\ OncePer(K_site(ping_interval_secs), tick_count, nchecks)
      /\ OncePer(K_persist(ping_interval_secs), tick_count, nsaves)

-----------------------------------------------------------------------------
(* What the service loop waits for (lib.rs 1067-1081, 1208-1225)           *)

\* a step of the service loop itself, as opposed to a step of the blocking
\* write thread or of the identity service's answer
ServiceStep ==
    \/ ServiceLoopHead
    \/ ServicePing
    \/ ServiceSite
    \/ ServiceVpn
    \/ ServiceSave
    \/ ServiceSleep

\* the disk write of a flush has been handed to the blocking thread and has
\* not completed
WriteInFlight == IsSome(disk_job)

\* the HTTP call of the background identity check has not been answered
FetchInFlight == ipc = "fetch"

\* C19: a flush does not delay probing: while the disk write of a flush is in
\* flight the service loop is able to take its next step, towards the sleep
\* and the probes of the next tick.
C19_FlushDoesNotBlockLoop == WriteInFlight => ENABLED ServiceStep

\* C20: an identity-service HTTP call of the background check does not delay
\* probing: while the call is in flight the service loop is able to take its
\* next step, towards the sleep and the probes of the next tick.
C20_FetchDoesNotBlockLoop == FetchInFlight => ENABLED ServiceStep

-----------------------------------------------------------------------------
(* The snapshot of the target list that a tick probes (lib.rs 1110-1135)   *)

\* the step of the scheduler that probes one target and appends its sample
ProbeStep == spc = "ping" /\ (idx' # idx \/ spc' # spc)

-----------------------------------------------------------------------------
(* ProbeEngine: do_ping step by step (lib.rs 777-798)                      *)

\* what touches nothing but the probe in progress
ProbeFrame ==
    UNCHANGED <<regVars, taskVars, schedVars, gateVars, ipVars, ipLocals,
                siteVars, sweepVars, svcVars, outVars, uiVars, tickLocals,
                reply, now>>

\* the latencies a strategy may measure, or none when it fails
ProbeLatencies == {None, Some(20), Some(35)}

\* do_ping(target) is called: nothing has been tried yet; n is what the
\* network will answer to ICMP, TCP 53, TCP 443 and TCP 80
ProbeStart(n) ==
    /\ ppc \in {"idle", "done"}
    /\ net' = n
    /\ attempts' = <<>>
    /\ probe_out' = <<None, None>>
    /\ ppc' = "icmp"
    /\ ProbeFrame

\* Faulty variant: the TCP fallback runs although ICMP has answered.
DoIcmpPing_FallsThrough ==
    /\ ppc = "icmp"
    /\ attempts' = Append(attempts, "Icmp")
    /\ probe_out' = IF IsSome(net[1]) THEN <<net[1], Some("Icmp")>> ELSE probe_out
    /\ ppc' = "tcp53"
    /\ UNCHANGED net
    /\ ProbeFrame

\* if let Some(ms) = do_icmp_ping(target).await { return (Some(ms), Some(Icmp)) }
\*                                                         (lines 779-781)
DoIcmpPing ==
    /\ ppc = "icmp"
    /\ attempts' = Append(attempts, "Icmp")
    /\ IF IsSome(net[1])
         THEN probe_out' = <<net[1], Some("Icmp")>> /\ ppc' = "done"
         ELSE UNCHANGED probe_out /\ ppc' = "tcp53"
    /\ UNCHANGED net
    /\ ProbeFrame

\* if let Some(ms) = do_tcp_ping(target, 53).await { return ... TcpDns }
\*                                                         (lines 785-787)
DoTcpPing53 ==
    /\ ppc = "tcp53"
    /\ attempts' = Append(attempts, "TcpDns")
    /\ IF IsSome(net[2])
         THEN probe_out' = <<net[2], Some("TcpDns")>> /\ ppc' = "done"
         ELSE UNCHANGED probe_out /\ ppc' = "tcp443"
    /\ UNCHANGED net
    /\ ProbeFrame

\* if let Some(ms) = do_tcp_ping(target, 443).await { return ... TcpHttps }
\*                                                         (lines 790-792)
DoTcpPing443 ==
    /\ ppc = "tcp443"
    /\ attempts' = Append(attempts, "TcpHttps")
    /\ IF IsSome(net[3])
         THEN probe_out' = <<net[3], Some("TcpHttps")>> /\ ppc' = "done"
         ELSE UNCHANGED probe_out /\ ppc' = "tcp80"
    /\ UNCHANGED net
    /\ ProbeFrame

\* match do_tcp_ping(target, 80).await { Some(ms) => ... TcpHttp,
\*                                       None => (None, None) }  (lines 794-797)
DoTcpPing80 ==
    /\ ppc = "tcp80"
    /\ attempts' = Append(attempts, "TcpHttp")
    /\ probe_out' = IF IsSome(net[4]) THEN <<net[4], Some("TcpHttp")>>
                    ELSE <<None, None>>
    /\ ppc' = "done"
    /\ UNCHANGED net
    /\ ProbeFrame

NextProbe ==
    \/ \E a, b, c, d \in ProbeLatencies : ProbeStart(<<a, b, c, d>>)
    \/ DoIcmpPing
    \/ DoTcpPing53
    \/ DoTcpPing443
    \/ DoTcpPing80

SpecProbe == Init /\ [][NextProbe]_vars

\* the order of the strategies
StrategyOrder == <<"Icmp", "TcpDns", "TcpHttps", "TcpHttp">>

\* C22: the strategies tried are ICMP, TCP 53, TCP 443, TCP 80 in that order,
\* one is tried only when every earlier one failed, and the probe returns the
\* latency of the first that succeeds with its method, or (none, none) when
\* all four failed; so the method is present iff the latency is; and the
\* sample built from the function do_ping of the same answers is the same.
C22_ProbeCascade ==
    /\ Len(attempts) <= 4
    /\ \A i \in 1..Len(attempts) :
         /\ attempts[i] = StrategyOrder[i]
         /\ \A j \in 1..(i - 1) : net[j] = None
    /\ ppc = "done" =>
         LET k == Len(attempts)
         IN  /\ k >= 1
             /\ IF IsSome(net[k])
                  THEN probe_out = <<net[k], Some(StrategyOrder[k])>>
                  ELSE k = 4 /\ probe_out = <<None, None>>
             /\ IsSome(probe_out[1]) <=> IsSome(probe_out[2])
             /\ probe_out = do_ping(net[1], net[2], net[3], net[4])

\* C22 witness: ICMP and TCP 53 failed, TCP 443 answered in 35 ms and TCP 80
\* was not tried although it would have answered.
C22_Witness ==
    /\ ppc = "done"
    /\ net = <<None, None, Some(35), Some(20)>>
    /\ attempts = <<"Icmp", "TcpDns", "TcpHttps">>
    /\ probe_out = <<Some(35), Some("TcpHttps")>>

-----------------------------------------------------------------------------
(* HistoryStore: get_statistics (lib.rs 410-456)                           *)

\* an f64 that is a quotient of two counts or sums is kept as the exact
\* fraction num / den
Frac(n, d) == [num |-> n, den |-> d]

RECURSIVE SumSeq(_)
SumSeq(q) == IF q = <<>> THEN 0 ELSE Head(q) + SumSeq(Tail(q))

RECURSIVE FoldMin(_, _)
FoldMin(q, acc) ==
    IF q = <<>> THEN acc
    ELSE FoldMin(Tail(q), IF Head(q) < acc THEN Head(q) ELSE acc)

RECURSIVE FoldMax(_, _)
FoldMax(q, acc) ==
    IF q = <<>> THEN acc
    ELSE FoldMax(Tail(q), IF Head(q) > acc THEN Head(q) ELSE acc)

\* Faulty variant: a sample exactly at the cutoff is counted.
get_statistics_Inclusive(history, target, minutes, primary, t) ==
    LET tgt == IF IsSome(target) THEN Unwrap(target) ELSE primary
        mins == IF IsSome(minutes) THEN Unwrap(minutes) ELSE 5
        cutoff == t - mins * 60
        pings == IF tgt \in DOMAIN history
                   THEN SelectSeq(history[tgt], LAMBDA r : r.timestamp >= cutoff)
                   ELSE <<>>
        failed == SelectSeq(pings, LAMBDA r : r.latency_ms = None)
        good == SelectSeq(pings, LAMBDA r : IsSome(r.latency_ms))
        successful == [i \in 1..Len(good) |-> Unwrap(good[i].latency_ms)]
    IN  [min_ms |-> IF successful = <<>> THEN None
                    ELSE Some(FoldMin(successful, successful[1])),
         max_ms |-> IF successful = <<>> THEN None
                    ELSE Some(FoldMax(successful, successful[1])),
         avg_ms |-> IF successful = <<>> THEN None
                    ELSE Some(Frac(SumSeq(successful), Len(successful))),
         packet_loss_pct |-> IF Len(pings) > 0
                               THEN Frac(Len(failed) * 100, Len(pings))
                               ELSE Frac(0, 1),
         total_pings |-> Len(pings),
         failed_pings |-> Len(failed)]

\* get_statistics (lib.rs 410-456): target defaults to the primary, minutes
\* to 5; t is Utc::now(). The folds start from +-infinity, which over a
\* non-empty list is the same as starting from its first element.
get_statistics(history, target, minutes, primary, t) ==
    LET tgt == IF IsSome(target) THEN Unwrap(target) ELSE primary
        mins == IF IsSome(minutes) THEN Unwrap(minutes) ELSE 5
        cutoff == t - mins * 60
        pings == IF tgt \in DOMAIN history
                   THEN SelectSeq(history[tgt], LAMBDA r : r.timestamp > cutoff)
                   ELSE <<>>
        failed == SelectSeq(pings, LAMBDA r : r.latency_ms = None)
        good == SelectSeq(pings, LAMBDA r : IsSome(r.latency_ms))
        successful == [i \in 1..Len(good) |-> Unwrap(good[i].latency_ms)]
    IN  [min_ms |-> IF successful = <<>> THEN None
                    ELSE Some(FoldMin(successful, successful[1])),
         max_ms |-> IF successful = <<>> THEN None
                    ELSE Some(FoldMax(successful, successful[1])),
         avg_ms |-> IF successful = <<>> THEN None
                    ELSE Some(Frac(SumSeq(successful), Len(successful))),
         packet_loss_pct |-> IF Len(pings) > 0
                               THEN Frac(Len(failed) * 100, Len(pings))
                               ELSE Frac(0, 1),
         total_pings |-> Len(pings),
         failed_pings |-> Len(failed)]

\* the command, issued by task h1; the reply keeps the arguments next to the
\* statistics returned
GetStatistics(target, minutes) ==
    /\ ncalls["h1"] < MaxQueryCalls
    /\ ncalls' = [ncalls EXCEPT !["h1"] = @ + 1]
    /\ arg' = [arg EXCEPT !["h1"] = [op |-> "get_statistics",
                                     target |-> IF IsSome(target) THEN Unwrap(target)
                                                ELSE ""]]
    /\ ret' = [ret EXCEPT !["h1"] = "Ok"]
    /\ reply' = Some([target |-> target, minutes |-> minutes,
                      stats |-> get_statistics(ping_history, target, minutes,
                                               primary_target, now)])
    /\ UNCHANGED <<targets, ping_history, primary_target, ping_interval_secs,
                   locks, pc>>
    /\ UNCHANGED <<schedVars, gateVars, ipVars, ipLocals, siteVars, sweepVars,
                   svcVars, outVars, uiVars, probeVars, tickLocals, now>>

\* the arguments a caller passes
StatTargets == {None, Some("8.8.8.8"), Some("x.com")}
StatMinutes == {None, Some(0), Some(1)}

\* the time of the calls, and the times of the three samples a history may
\* hold: five minutes before the calls to the second, one minute before, and
\* half a minute before
StatNow == 360
StatTimes == <<60, 300, 330>>

\* the histories of the primary target: none to three samples at those times,
\* each failed or with a latency
StatHistories ==
    {<<>>} \cup
    { [i \in 1..3 |-> [timestamp |-> StatTimes[i], latency_ms |-> l[i],
                       target |-> DefaultTarget,
                       method |-> IF l[i] = None THEN None ELSE Some("Icmp")]]
        : l \in [1..3 -> {None, Some(20), Some(500)}] }

InitStats ==
    /\ targets = <<DefaultTarget, "8.8.8.8">>
    /\ ping_history \in { [t \in {DefaultTarget, "8.8.8.8"} |->
                             IF t = DefaultTarget THEN h ELSE <<>>]
                            : h \in StatHistories }
    /\ primary_target = DefaultTarget
    /\ ping_interval_secs = 10
    /\ now = StatNow
    /\ InitTasks
    /\ InitService
    /\ InitAlerts
    /\ InitSite

NextStats ==
    \E t \in StatTargets, m \in StatMinutes : GetStatistics(t, m)

SpecStats == InitStats /\ [][NextStats]_vars

\* the samples of the window of a reply: under SpecStats neither the
\* histories nor the clock move, so they are those the call saw
WindowOf(r) ==
    LET tgt == IF r.target = None THEN primary_target ELSE r.target[1]
        mins == IF r.minutes = None THEN 5 ELSE r.minutes[1]
    IN  IF tgt \in DOMAIN ping_history
          THEN SelectSeq(ping_history[tgt],
                         LAMBDA p : p.timestamp > now - mins * 60)
          ELSE <<>>

\* C23: the statistics returned count the samples of the target with a
\* timestamp strictly after now minus the window: total_pings is their
\* number, failed_pings the number of them without latency, min, max and avg
\* are over those with a latency and absent when there is none, and
\* packet_loss_pct is failed / total * 100, or 0 when total is 0.
C23_WindowedStatistics ==
    IsSome(reply) =>
      LET r == reply[1]
          st == r.stats
          w == WindowOf(r)
          lat == {i \in 1..Len(w) : IsSome(w[i].latency_ms)}
          val(i) == w[i].latency_ms[1]
      IN  /\ st.total_pings = Len(w)
          /\ st.failed_pings = Cardinality({i \in 1..Len(w) : w[i].latency_ms = None})
          /\ IF lat = {}
               THEN st.min_ms = None /\ st.max_ms = None /\ st.avg_ms = None
               ELSE /\ IsSome(st.min_ms) /\ IsSome(st.max_ms) /\ IsSome(st.avg_ms)
                    /\ \E i \in lat : val(i) = st.min_ms[1]
                    /\ \A i \in lat : st.min_ms[1] <= val(i)
                    /\ \E i \in lat : val(i) = st.max_ms[1]
                    /\ \A i \in lat : st.max_ms[1] >= val(i)
                    /\ st.avg_ms[1].den = Cardinality(lat)
                    /\ st.avg_ms[1].num
                         = SumSeq([i \in 1..Len(w) |->
                                     IF i \in lat THEN val(i) ELSE 0])
          /\ IF st.total_pings = 0
               THEN st.packet_loss_pct = Frac(0, 1)
               ELSE st.packet_loss_pct = Frac(st.failed_pings * 100, st.total_pings)

\* C23 witness: the default window of five minutes over samples at exactly
\* five minutes (failed, not counted), one minute (500 ms) and half a minute
\* (failed) before the call: two counted, one failed, min = max = avg = 500,
\* loss 50 %.
C23_Witness ==
    /\ IsSome(reply)
    /\ reply[1].target = None
    /\ reply[1].minutes = None
    /\ Len(ping_history[DefaultTarget]) = 3
    /\ ping_history[DefaultTarget][1].latency_ms = None
    /\ reply[1].stats = [min_ms |-> Some(500), max_ms |-> Some(500),
                         avg_ms |-> Some(Frac(500, 1)),
                         packet_loss_pct |-> Frac(100, 2),
                         total_pings |-> 2, failed_pings |-> 1]

-----------------------------------------------------------------------------
(* TrayStateReducer and the body of the tick's for loop                    *)
(* (lib.rs 329-407, 996-1055, 1115-1197)                                   *)

\* Faulty variant: 60 ms still counts as happy.
get_icon_type_for_latency_Le(latency_ms) ==
    IF IsSome(latency_ms)
      THEN (IF Unwrap(latency_ms) <= 60 THEN "Happy"
            ELSE IF Unwrap(latency_ms) < 150 THEN "Angry" ELSE "Sad")
      ELSE "Dead"

\* get_icon_type_for_latency (lib.rs 996-1003)
get_icon_type_for_latency(latency_ms) ==
    IF IsSome(latency_ms)
      THEN (IF Unwrap(latency_ms) < 60 THEN "Happy"
            ELSE IF Unwrap(latency_ms) < 150 THEN "Angry" ELSE "Sad")
      ELSE "Dead"

\* match latency_ms { Some(ms) => format!("{:.0}ms", ms), None => "---" }
\*                                                        (lines 1142-1145)
ping_text(latency_ms) ==
    IF IsSome(latency_ms) THEN ToString(Unwrap(latency_ms)) \o "ms" ELSE "---"

\* what set_icon and set_title put in the menu bar for a mode, an icon type
\* and a title (lines 1030-1052 and 376-403)
render_tray(mode, icon_type, title) ==
    [icon |-> IF mode = "PingOnly" THEN "Transparent" ELSE icon_type,
     title |-> IF mode = "IconOnly" THEN "" ELSE title]

\* update_tray_if_changed (lib.rs 1006-1055): the tray and the cache after it
update_tray_if_changed(tr, new_state, last_state, mode) ==
    IF last_state = Some(new_state)
      THEN [tray |-> tr, last_state |-> last_state]
      ELSE [tray |-> render_tray(mode, new_state.icon_type, new_state.title),
            last_state |-> Some(new_state)]

\* what a step of the loop body never touches
TickFrame ==
    UNCHANGED <<targets, primary_target, ping_interval_secs, locks, taskVars,
                tick_count, snap_targets, snap_primary, notification_threshold_ms,
                ipVars, ipLocals, siteVars, sweepVars, svcVars, probeVars,
                display_mode, sdm_primary, save_copy, reply, now>>

\* the loop goes on to the next target of the copy, or the tick's probes end
TickAdvance ==
    IF idx < Len(snap_targets)
      THEN idx' = idx + 1 /\ spc' = "ping"
      ELSE idx' = idx /\ spc' = "sleep"

\* do_ping(target).await, the PingResult, and the block that appends it
\*                                                        (lines 1116-1135)
TickProbe(a) ==
    /\ spc = "ping"
    /\ locks["ping_history"] = "free"
    /\ LET t == snap_targets[idx]
           r == PingResult(t, a, now)
       IN  /\ ping_history' = AppendToHistory(ping_history, r)
           /\ tick_result' = r
           /\ spc' = IF t = snap_primary THEN "tray_mode" ELSE "emit"
    /\ UNCHANGED <<idx, tick_mode, tick_threshold, tray, last_tray_state,
                   last_notification, outVars>>
    /\ TickFrame

\* let display_mode = state.display_mode.lock().await.clone()   (line 1139)
TickTrayMode ==
    /\ spc = "tray_mode"
    /\ tick_mode' = display_mode
    /\ spc' = "tray_update"
    /\ UNCHANGED <<ping_history, idx, tick_result, tick_threshold, tray,
                   last_tray_state, last_notification, outVars>>
    /\ TickFrame

\* the new TrayState and update_tray_if_changed under the cache's mutex
\*                                                        (lines 1141-1159)
TickTrayUpdate ==
    /\ spc = "tray_update"
    /\ LET icon_type == IF tick_mode = "PingOnly" THEN "Transparent"
                        ELSE get_icon_type_for_latency(tick_result.latency_ms)
           new_state == [icon_type |-> icon_type,
                         title |-> ping_text(tick_result.latency_ms)]
           u == update_tray_if_changed(tray, new_state, last_tray_state, tick_mode)
       IN  /\ tray' = u.tray
           /\ last_tray_state' = u.last_state
    /\ spc' = "emit"
    /\ UNCHANGED <<ping_history, idx, tick_result, tick_mode, tick_threshold,
                   last_notification, outVars>>
    /\ TickFrame

\* Faulty variant: the notification block follows the sample of any target.
TickEmit_AnyTarget ==
    /\ spc = "emit"
    /\ emitted' = Append(emitted, [name |-> "ping-update", payload |-> tick_result])
    /\ IF IsSome(tick_result.latency_ms)
         THEN spc' = "threshold" /\ UNCHANGED idx
         ELSE TickAdvance
    /\ UNCHANGED <<ping_history, tick_result, tick_mode, tick_threshold, tray,
                   last_tray_state, last_notification, notifications>>
    /\ TickFrame

\* app_handle.emit("ping-update", &result); for the primary target with a
\* latency the notification block follows                 (lines 1162-1175)
TickEmit ==
    /\ spc = "emit"
    /\ emitted' = Append(emitted, [name |-> "ping-update", payload |-> tick_result])
    /\ IF tick_result.target = snap_primary /\ IsSome(tick_result.latency_ms)
         THEN spc' = "threshold" /\ UNCHANGED idx
         ELSE TickAdvance
    /\ UNCHANGED <<ping_history, tick_result, tick_mode, tick_threshold, tray,
                   last_tray_state, last_notification, notifications>>
    /\ TickFrame

\* let threshold = *notification_threshold_ms; if ms > threshold as f64
\*                                                        (lines 1176-1177)
TickThreshold ==
    /\ spc = "threshold"
    /\ tick_threshold' = notification_threshold_ms
    /\ IF Unwrap(tick_result.latency_ms) > notification_threshold_ms
         THEN spc' = "notify" /\ UNCHANGED idx
         ELSE TickAdvance
    /\ UNCHANGED <<ping_history, tick_result, tick_mode, tray, last_tray_state,
                   last_notification, outVars>>
    /\ TickFrame

\* the cooldown test and the notification under last_notification's mutex
\*                                                        (lines 1178-1194)
TickNotify ==
    /\ spc = "notify"
    /\ IF high_latency_should_notify(last_notification, now)
         THEN /\ last_notification' = Some(now)
              /\ notifications' = Append(notifications,
                                         [title |-> "PingZilla Alert",
                                          body |-> "High latency detected",
                                          at |-> now])
         ELSE UNCHANGED <<last_notification, notifications>>
    /\ TickAdvance
    /\ UNCHANGED <<ping_history, tick_result, tick_mode, tick_threshold, tray,
                   last_tray_state, emitted>>
    /\ TickFrame

\* the mode strings a caller passes, one of them unknown
ModeStrings == {"icon_only", "icon_and_ping", "ping_only", "bogus"}

\* match mode.as_str() { .. }                               (lines 335-340)
DisplayModeOf(mode) ==
    IF mode = "icon_only" THEN Some("IconOnly")
    ELSE IF mode = "icon_and_ping" THEN Some("IconAndPing")
    ELSE IF mode = "ping_only" THEN Some("PingOnly")
    ELSE None

\* what a step of set_display_mode never touches
SdmFrame ==
    UNCHANGED <<targets, ping_history, primary_target, ping_interval_secs, locks,
                schedVars, gateVars, ipVars, ipLocals, siteVars, sweepVars,
                svcVars, outVars, probeVars, last_tray_state, tick_result,
                tick_mode, tick_threshold, save_copy, reply, now>>

\* set_display_mode up to the write of display_mode (lines 329-345); task h1
\* issues it
set_display_mode_call(mode, budget) ==
    /\ pc["h1"] = "idle"
    /\ ncalls["h1"] < budget
    /\ ncalls' = [ncalls EXCEPT !["h1"] = @ + 1]
    /\ arg' = [arg EXCEPT !["h1"] = [op |-> "set_display_mode", target |-> mode]]
    /\ IF DisplayModeOf(mode) = None
         THEN /\ ret' = [ret EXCEPT !["h1"] = "Err"]
              /\ UNCHANGED <<display_mode, pc>>
         ELSE /\ ret' = [ret EXCEPT !["h1"] = "pending"]
              /\ display_mode' = Unwrap(DisplayModeOf(mode))
              /\ pc' = [pc EXCEPT !["h1"] = "sdm_primary"]
    /\ UNCHANGED <<tray, sdm_primary>>
    /\ SdmFrame

\* let primary_target = state.primary_target.lock().await.clone()  (line 349)
SdmReadPrimary ==
    /\ pc["h1"] = "sdm_primary"
    /\ locks["primary_target"] = "free"
    /\ sdm_primary' = primary_target
    /\ pc' = [pc EXCEPT !["h1"] = "sdm_render"]
    /\ UNCHANGED <<display_mode, tray, arg, ret, ncalls>>
    /\ SdmFrame

\* the latest latency of that target under ping_history's mutex and the
\* immediate update of the tray; the cache is not written   (lines 350-406)
SdmRender ==
    /\ pc["h1"] = "sdm_render"
    /\ locks["ping_history"] = "free"
    /\ LET h == IF sdm_primary \in DOMAIN ping_history
                  THEN ping_history[sdm_primary] ELSE <<>>
           current_ping == IF Len(h) > 0 THEN h[Len(h)].latency_ms ELSE None
           mode == Unwrap(DisplayModeOf(arg["h1"].target))
       IN  tray' = render_tray(mode, get_icon_type_for_latency(current_ping),
                               ping_text(current_ping))
    /\ pc' = [pc EXCEPT !["h1"] = "idle"]
    /\ ret' = [ret EXCEPT !["h1"] = "Ok"]
    /\ UNCHANGED <<display_mode, sdm_primary, arg, ncalls>>
    /\ SdmFrame

\* what the network answers to the probe of the target in the tray
\* specification: latencies on both sides of the two icon limits, one above
\* the notification threshold, and no answer
TrayAnswers ==
    { <<Some(59), None, None, None>>, <<Some(60), None, None, None>>,
      <<Some(149), None, None, None>>, <<None, Some(150), None, None>>,
      <<Some(500), None, None, None>>, <<None, None, None, None>> }

TrayLoopHead == sched_loop_head(MaxTrayTicks)

SetDisplayMode(mode) == set_display_mode_call(mode, MaxModeCalls)

NextTray ==
    \/ TrayLoopHead
    \/ SchedSnapTargets
    \/ SchedSnapPrimary
    \/ \E a \in TrayAnswers : TickProbe(a)
    \/ TickTrayMode
    \/ TickTrayUpdate
    \/ TickEmit
    \/ TickThreshold
    \/ TickNotify
    \/ SchedSleep
    \/ \E m \in ModeStrings : SetDisplayMode(m)
    \/ SdmReadPrimary
    \/ SdmRender

SpecTray == Init /\ [][NextTray]_vars

\* the tray of the claim for a latency and a mode
ClaimedIcon(l) ==
    IF l = None THEN "Dead"
    ELSE IF l[1] < 60 THEN "Happy"
    ELSE IF l[1] >= 60 /\ l[1] < 150 THEN "Angry"
    ELSE "Sad"

ClaimedTray(l, mode) ==
    [icon |-> IF mode = "PingOnly" THEN "Transparent" ELSE ClaimedIcon(l),
     title |-> IF mode = "IconOnly" THEN "" ELSE ping_text(l)]

\* C24: whenever the tick renders the tray for the sample of the primary
\* target, under the display mode it read for that sample, the icon is Happy
\* below 60 ms, Angry from 60 to below 150 ms, Sad from 150 ms, Dead for a
\* failed probe, and Transparent in PingOnly mode, and the label is empty in
\* IconOnly mode and shown in the other two; it renders unless the state is
\* the cached one, and then caches it. set_display_mode renders the same way
\* for the latest sample and the mode it was given.
C24_TrayRender ==
    [][/\ (spc = "tray_update" /\ spc' = "emit") =>
            LET l == tick_result.latency_ms
                new_state == [icon_type |-> IF tick_mode = "PingOnly"
                                               THEN "Transparent" ELSE ClaimedIcon(l),
                              title |-> ping_text(l)]
            IN  IF last_tray_state = Some(new_state)
                  THEN UNCHANGED <<tray, last_tray_state>>
                  ELSE /\ tray' = ClaimedTray(l, tick_mode)
                       /\ last_tray_state' = Some(new_state)
       /\ (pc["h1"] = "sdm_render" /\ pc'["h1"] = "idle") =>
            LET h == IF sdm_primary \in DOMAIN ping_history
                       THEN ping_history[sdm_primary] ELSE <<>>
                l == IF Len(h) > 0 THEN h[Len(h)].latency_ms ELSE None
            IN  tray' = ClaimedTray(l, display_mode)]_vars

\* C24 witness: the second tick measured 150 ms over TCP in PingOnly mode: the
\* cache holds (Transparent, "150ms") and the tray shows no icon and the label.
C24_Witness ==
    /\ tick_count = 2
    /\ spc = "sleep"
    /\ display_mode = "PingOnly"
    /\ tick_result.latency_ms = Some(150)
    /\ last_tray_state = Some([icon_type |-> "Transparent", title |-> "150ms"])
    /\ tray = [icon |-> "Transparent", title |-> "150ms"]

-----------------------------------------------------------------------------
(* The notification block inside the loop over the targets (lib.rs         *)
(* 1173-1197)                                                              *)

\* two targets and a 30 s interval, as add_target and set_ping_interval leave
\* them
InitAlertTick ==
    /\ targets = <<"1.1.1.1", "8.8.8.8">>
    /\ ping_history = [t \in {"1.1.1.1", "8.8.8.8"} |-> <<>>]
    /\ primary_target = "1.1.1.1"
    /\ ping_interval_secs = 30
    /\ now = 0
    /\ InitTasks
    /\ InitService
    /\ InitAlerts
    /\ InitSite

\* what the network answers in the alert specification: exactly the
\* threshold, just above it, or nothing
AlertTickAnswers ==
    { <<Some(400), None, None, None>>, <<Some(401), None, None, None>>,
      <<None, None, None, None>> }

\* the primary target answers any of them, every other target always just
\* above the threshold
AlertAnswersOf(t) ==
    IF t = snap_primary THEN AlertTickAnswers ELSE { <<Some(401), None, None, None>> }

AlertLoopHead == sched_loop_head(MaxAlertTicks)

\* set_primary_target from task h1
AlertSetPrimary(t) ==
    /\ ncalls["h1"] < MaxPrimaryCalls
    /\ SetPrimaryTarget("h1", t)

NextAlertTick ==
    \/ AlertLoopHead
    \/ SchedSnapTargets
    \/ SchedSnapPrimary
    \/ \E a \in AlertTickAnswers :
         /\ spc = "ping"
         /\ a \in AlertAnswersOf(snap_targets[idx])
         /\ TickProbe(a)
    \/ TickTrayMode
    \/ TickTrayUpdate
    \/ TickEmit
    \/ TickThreshold
    \/ TickNotify
    \/ SchedSleep
    \/ \E t \in {"1.1.1.1", "8.8.8.8"} : AlertSetPrimary(t)
    \/ SetPrimaryWrite("h1")

SpecAlertTick == InitAlertTick /\ [][NextAlertTick]_vars

\* a high-latency notification is sent in this step
HighLatencySent ==
    /\ Len(notifications') = Len(notifications) + 1
    /\ notifications'[Len(notifications')].title = "PingZilla Alert"

\* C25: a high-latency notification is sent only for the sample the tick is
\* processing when that sample is of the primary target the tick copied, has
\* a latency, and the latency is strictly greater than the configured
\* threshold; and every high-latency notification sent earlier is at least
\* 60 s older.
C25_HighLatencyOnlyPrimaryOverThreshold ==
    [][HighLatencySent
         => /\ tick_result.target = snap_primary
            /\ tick_result.latency_ms # None
            /\ tick_result.latency_ms[1] > notification_threshold_ms
            /\ \A i \in 1..Len(notifications) :
                 notifications[i].title = "PingZilla Alert"
                   => notifications'[Len(notifications')].at - notifications[i].at >= 60]_vars

\* C25 witness: four ticks 30 s apart, in each the primary answered 401 ms and
\* the other target 401 ms as well: notifications went out at 0 s and at 90 s
\* only.
C25_Witness ==
    /\ tick_count = 4
    /\ spc = "sleep"
    /\ Len(ping_history["8.8.8.8"]) = 4
    /\ \A i \in 1..Len(ping_history["1.1.1.1"]) :
         ping_history["1.1.1.1"][i].latency_ms = Some(401)
    /\ Len(ping_history["1.1.1.1"]) = 4
    /\ Len(notifications) = 2
    /\ notifications[1].at = 0
    /\ notifications[2].at = 90

-----------------------------------------------------------------------------
(* Site sweep and identity check of one tick (lib.rs 1201-1213)            *)

\* the two conditions of the tick in hand
SiteDue == tick_count % site_check_interval(last_interval_secs) = 0
VpnDue == tick_count % vpn_check_interval(last_interval_secs)
              = vpn_offset(last_interval_secs)

\* the step on which the tick decides on the sweep
SiteStep == spc = "site" /\ spc' = "vpn"

\* C26: no tick runs both the site sweep and the identity check. From the
\* step that decides on the sweep to the step that decides on the check the
\* tick number and the interval the two conditions read stay the same; the
\* sweep runs exactly when tick mod K = 0 and the check exactly when
\* tick mod K = offset, with the same K and an offset that is not 0 and below
\* K; so a tick that runs the check has not run the sweep.
C26_SweepAndCheckExclusive ==
    [][/\ (spc \in {"site", "vpn"} /\ spc' \in {"site", "vpn", "save"})
            => UNCHANGED <<tick_count, last_interval_secs>>
       /\ SiteStep => (nsweeps' = nsweeps + 1 <=> SiteDue)
                      /\ (nsweeps' = nsweeps <=> ~SiteDue)
       /\ VpnStep => /\ (nchecks' = nchecks + 1 <=> VpnDue)
                     /\ (nchecks' = nchecks <=> ~VpnDue)
                     /\ site_check_interval(last_interval_secs)
                          = vpn_check_interval(last_interval_secs)
                     /\ vpn_offset(last_interval_secs) \in
                          1..(vpn_check_interval(last_interval_secs) - 1)
                     /\ ~(SiteDue /\ VpnDue)]_vars

\* C26 witness: the interval was changed to 5 s after ticks at 10 s; an even
\* tick has run the sweep and skipped the check, and both a sweep and a check
\* have run under each cadence.
C26_Witness ==
    /\ last_interval_secs = 5
    /\ spc = "save"
    /\ tick_count = 8
    /\ nsweeps = 2
    /\ nchecks = 2

-----------------------------------------------------------------------------
(* check_all_sites: the change flag and the batch update (lib.rs 850-910)  *)

\* the monitor list as load_history restores it: one enabled monitor, or a
\* disabled one followed by an enabled one
InitSweepLoaded ==
    /\ InitRegistry
    /\ InitTasks
    /\ InitService
    /\ InitAlerts
    /\ site_monitors \in
         { <<MkMonitor("a.com")>>,
           <<[MkMonitor("a.com") EXCEPT !.enabled = FALSE], MkMonitor("b.com")>> }
    /\ site_statuses = <<>>
    /\ InitSweep

SpecSweep == InitSweepLoaded /\ [][NextSite]_vars

\* the steps on which a sweep starts and ends
SweepStartStep == swpc = "idle" /\ swpc' # "idle"
SweepEndStep == swpc = "emit" /\ swpc' = "idle"

\* C27: a sweep goes over the enabled monitors only and starts with its
\* change flag false; the flag becomes true exactly when the check of a
\* monitor finds an up/down state different from the one the sweep found
\* recorded for it, a URL without a record counting as up, and never goes
\* back; the sweep ends by emitting one site-status-update batch exactly when
\* the flag is true, and no other step emits.
C27_ChangedIffSomeStateDiffers ==
    [][/\ SweepStartStep =>
            /\ any_changed' = FALSE
            /\ sweep_monitors' = SelectSeq(site_monitors, LAMBDA m : m.enabled)
       /\ ReadPrevStep =>
            /\ was_up' = RecordedUp(SweepUrl)
            /\ any_changed' = any_changed
       /\ CheckStep =>
            any_changed' = (any_changed \/ (was_up # final_status'.is_up))
       /\ StoreStep => any_changed' = any_changed
       /\ SweepEndStep =>
            /\ any_changed' = any_changed
            /\ any_changed =>
                 emitted' = Append(emitted, [name |-> "site-status-update",
                                             payload |-> site_statuses])
            /\ ~any_changed => emitted' = emitted
       /\ ~SweepEndStep => emitted' = emitted]_vars

\* C27 witness: a.com is disabled and b.com answered up, down, up in three
\* sweeps: the first sweep reported no change, the other two did and emitted
\* the batch, and a.com was never checked.
C27_Witness ==
    /\ nsweeps = 3
    /\ swpc = "idle"
    /\ ncalls["h1"] = 0
    /\ Len(site_monitors) = 2
    /\ ~site_monitors[1].enabled
    /\ "a.com" \notin DOMAIN site_statuses
    /\ "b.com" \in DOMAIN site_statuses
    /\ site_statuses["b.com"].is_up
    /\ site_statuses["b.com"].last_down = Some(120)
    /\ any_changed
    /\ Len(emitted) = 2

-----------------------------------------------------------------------------
(* The stability counters of the identity check (lib.rs 933-947)           *)

\* the step of a background check on which the fetched identity is compared
CompareStep == ipc = "fetch" /\ ipc' \in {"notify", "store"}

\* the type of the change the step detected, "none" if it detected none
DetectedType == IF ip_change' = None THEN "none" ELSE ip_change'[1].change_type

\* C29: a check that detects CountryChanged adds one to changes_last_hour and
\* sets last_country_change to the time of the check, leaving last_ip_change;
\* one that detects IpChanged adds one and sets last_ip_change, leaving
\* last_country_change; one that detects IspChanged, or no change, leaves the
\* three fields as they were; and no other step of the check writes them.
C29_StabilityByChangeType ==
    [][/\ (CompareStep /\ DetectedType = "CountryChanged") =>
            network_stability' =
              [changes_last_hour |-> network_stability.changes_last_hour + 1,
               last_country_change |-> Some(now),
               last_ip_change |-> network_stability.last_ip_change]
       /\ (CompareStep /\ DetectedType = "IpChanged") =>
            network_stability' =
              [changes_last_hour |-> network_stability.changes_last_hour + 1,
               last_country_change |-> network_stability.last_country_change,
               last_ip_change |-> Some(now)]
       /\ (CompareStep /\ DetectedType \in {"IspChanged", "none"}) =>
            network_stability' = network_stability
       /\ ~CompareStep => network_stability' = network_stability]_vars

\* C29 witness: three checks, the second found only the provider changed and
\* the third, 30 s later, the address: one change counted, last_ip_change
\* set, last_country_change still absent.
C29_Witness ==
    /\ nchecks = 3
    /\ ipc = "idle"
    /\ Len(network_change_history) = 2
    /\ network_change_history[1].change_type = "IspChanged"
    /\ network_change_history[2].change_type = "IpChanged"
    /\ network_change_history[2].timestamp
         = network_change_history[1].timestamp + 30
    /\ network_stability =
         [changes_last_hour |-> 1, last_country_change |-> None,
          last_ip_change |-> Some(network_change_history[2].timestamp)]

-----------------------------------------------------------------------------
(* The change log of the identity check over many checks (lib.rs 949-957)  *)

\* the identities the service answers in turn: from one to the next the
\* provider, the address, the country and again the country change
LogCycle ==
    << MkIpInfo("1.1.1.1", "US", Some("isp-a")),
       MkIpInfo("1.1.1.1", "US", Some("isp-b")),
       MkIpInfo("2.2.2.2", "US", Some("isp-a")),
       MkIpInfo("2.2.2.2", "DE", Some("isp-a")) >>

\* the identity that follows info in the cycle
NextInCycle(info) ==
    LET i == CHOOSE k \in 1..Len(LogCycle) : LogCycle[k] = info
    IN  LogCycle[(i % Len(LogCycle)) + 1]

\* what the service answers to check n: anything for the first identity, the
\* cached identity once more on every seventh check, the next one of the
\* cycle otherwise
LogAnswers(n) ==
    IF ip_info = None THEN { LogCycle[k] : k \in 1..Len(LogCycle) }
    ELSE IF n % 7 = 0 THEN { ip_info[1] }
    ELSE { NextInCycle(ip_info[1]) }

\* a background check every 60 s
LogCheckStart == check_ip_start(MaxLogChecks, 60)

\* the request fails on a few of the checks
LogFetchErr ==
    /\ nchecks % 50 = 3
    /\ CheckIpFetchErr

NextChangeLog ==
    \/ LogCheckStart
    \/ LogFetchErr
    \/ \E c \in LogAnswers(nchecks) : CheckIpDetect(c)
    \/ CheckIpNotify
    \/ CheckIpStore

SpecChangeLog == Init /\ [][NextChangeLog]_vars

\* the changes detected so far, in the order of their detection: each one is
\* emitted as a network-change event when it is detected
DetectedChanges(em) ==
    LET e == SelectSeq(em, LAMBDA x : x.name = "network-change")
    IN  [i \in 1..Len(e) |-> e[i].payload]

\* the last n elements of a sequence
LastN(q, n) == IF Len(q) <= n THEN q ELSE SubSeq(q, Len(q) - n + 1, Len(q))

\* C28: a check that detects a change appends exactly that one event to the
\* change log, evicting the oldest event when the log already holds 100; a
\* check that detects none, and every other step, leaves the log as it is;
\* so the log never holds more than 100 events and is always the last 100 (or
\* fewer) detected changes in the order of their detection.
C28_ChangeLogBounded ==
    [][/\ (CompareStep /\ ip_change' # None) =>
            network_change_history' =
              (IF Len(network_change_history) = 100
                 THEN Tail(network_change_history)
                 ELSE network_change_history) \o <<ip_change'[1]>>
       /\ (CompareStep /\ ip_change' = None) =>
            network_change_history' = network_change_history
       /\ ~CompareStep => network_change_history' = network_change_history
       /\ Len(network_change_history') <= 100
       /\ network_change_history' = LastN(DetectedChanges(emitted'), 100)]_vars

\* C28 witness: more than 100 changes were detected; the log holds 100 of
\* them, the oldest one it holds is the 100th from the end, a change of
\* every type is in it, and the changes detected first are gone.
C28_Witness ==
    /\ ipc = "idle"
    /\ Len(DetectedChanges(emitted)) > 103
    /\ Len(network_change_history) = 100
    /\ network_change_history[1]
         = DetectedChanges(emitted)[Len(DetectedChanges(emitted)) - 99]
    /\ network_change_history[1].timestamp > DetectedChanges(emitted)[1].timestamp
    /\ \A i \in 1..99 : network_change_history[i].timestamp
                          < network_change_history[i + 1].timestamp
    /\ {network_change_history[i].change_type : i \in 1..100}
         = {"IpChanged", "CountryChanged", "IspChanged"}

-----------------------------------------------------------------------------
(* Writers of the history store and of the cached tray state (lib.rs       *)
(* 259-287, 329-407, 1125-1159)                                            *)

\* a step of a command handler: a call, or a handler going on after an await
HandlerStep == \E h \in Tasks : pc'[h] # pc[h] \/ ncalls'[h] # ncalls[h]

\* C30: the scheduler is the only writer of the history store and of the
\* cached tray state: no step of a command handler inserts, removes or
\* replaces a history entry or writes the cache.
C30_OnlySchedulerWrites ==
    [][HandlerStep => UNCHANGED <<ping_history, last_tray_state>>]_vars

-----------------------------------------------------------------------------
(* The order of the samples of a target over several ticks (lib.rs         *)
(* 1115-1135)                                                              *)

OrderLoopHead == sched_loop_head(MaxOrderTicks)

\* three ticks of the probing loop while task h1 adds and removes 8.8.8.8
NextOrder ==
    \/ AddTarget("h1", "8.8.8.8")
    \/ AddTargetHistory("h1")
    \/ RemoveTarget("h1", "8.8.8.8")
    \/ RemoveTargetHistory("h1")
    \/ RemoveTargetPrimary("h1")
    \/ OrderLoopHead
    \/ SchedSnapTargets
    \/ SchedSnapPrimary
    \/ SchedPing
    \/ SchedSleep

SpecOrder == Init /\ [][NextOrder]_vars

\* the samples of a history are in non-decreasing order of their timestamps
TimeOrdered(h) ==
    \A i \in 1..Len(h), j \in 1..Len(h) : i < j => h[i].timestamp <= h[j].timestamp

\* the history of t, empty if the store has no entry for it
HistoryOf(hist, t) == IF t \in DOMAIN hist THEN hist[t] ELSE <<>>

\* C31: the k-th probe step of a tick appends exactly one sample, stamped
\* with the time of the probe, at the end of the history of the k-th target
\* of the tick's copy, and the tick goes on to the next member or ends, so
\* each member gets one sample per tick; and after every step, of the
\* scheduler or of a command handler, the samples of every history are in
\* non-decreasing order of their timestamps.
C31_OneSamplePerTargetInOrder ==
    [][/\ ProbeStep =>
            LET t == snap_targets[idx]
                old == HistoryOf(ping_history, t)
                new == HistoryOf(ping_history', t)
            IN  /\ Len(new) = Len(old) + 1
                /\ SubSeq(new, 1, Len(old)) = old
                /\ new[Len(new)].target = t
                /\ new[Len(new)].timestamp = now
                /\ \A x \in DOMAIN ping_history' \ {t} :
                     HistoryOf(ping_history, x) = ping_history'[x]
                /\ (idx' = idx + 1 /\ spc' = "ping")
                     \/ (idx = Len(snap_targets) /\ spc' = "sleep")
       /\ \A t \in DOMAIN ping_history' : TimeOrdered(ping_history'[t])]_vars

\* C31 witness: three ticks are over; 1.1.1.1 has its three samples stamped
\* 0, 10 and 20 in that order, and 8.8.8.8, added while the ticks ran, has the
\* samples of the last two ticks in order.
C31_Witness ==
    /\ tick_count = 3
    /\ spc = "sleep"
    /\ Len(ping_history["1.1.1.1"]) = 3
    /\ \A i \in 1..3 : ping_history["1.1.1.1"][i].timestamp = 10 * (i - 1)
    /\ "8.8.8.8" \in DOMAIN ping_history
    /\ Len(ping_history["8.8.8.8"]) = 2
    /\ ping_history["8.8.8.8"][1].timestamp = 10
    /\ ping_history["8.8.8.8"][2].timestamp = 20

-----------------------------------------------------------------------------
(* The mutexes of AppState and the order they are taken in (lib.rs         *)
(* 259-301, 688-697, 850-910, 1110-1135)                                   *)

\* remove_site_monitor up to the await of site_statuses: takes site_monitors
\* and retains                                              (lines 690-691)
RemoveSiteMonitorRetain(h, url) ==
    /\ Invoke(h, "remove_site_monitor", url)
    /\ locks["site_monitors"] = "free"
    /\ locks' = [locks EXCEPT !["site_monitors"] = h]
    /\ site_monitors' = SelectSeq(site_monitors, LAMBDA m : m.url # url)
    /\ pc' = [pc EXCEPT ![h] = "remove_site_monitor_statuses"]
    /\ ret' = [ret EXCEPT ![h] = "pending"]
    /\ UNCHANGED <<targets, ping_history, primary_target, ping_interval_secs,
                   site_statuses>>
    /\ UNCHANGED <<extVars, svcVars, schedVars, gateVars, ipVars, ipLocals,
                   sweepVars, outVars, now>>

\* statuses.remove(&url); both guards drop                  (lines 693-696)
RemoveSiteMonitorStatuses(h) ==
    /\ pc[h] = "remove_site_monitor_statuses"
    /\ locks["site_statuses"] = "free"
    /\ site_statuses' = MapRemove(site_statuses, arg[h].target)
    /\ locks' = [locks EXCEPT !["site_monitors"] = "free"]
    /\ pc' = [pc EXCEPT ![h] = "idle"]
    /\ ret' = [ret EXCEPT ![h] = "Ok"]
    /\ UNCHANGED <<targets, ping_history, primary_target, ping_interval_secs,
                   site_monitors, arg, ncalls>>
    /\ UNCHANGED <<extVars, svcVars, schedVars, gateVars, ipVars, ipLocals,
                   sweepVars, outVars, now>>

\* two targets and one site monitor
InitLocks ==
    /\ targets = <<"1.1.1.1", "8.8.8.8">>
    /\ ping_history = [t \in {"1.1.1.1", "8.8.8.8"} |-> <<>>]
    /\ primary_target = "1.1.1.1"
    /\ ping_interval_secs = 10
    /\ now = 0
    /\ InitTasks
    /\ InitService
    /\ InitAlerts
    /\ site_monitors = <<MkMonitor("a.com")>>
    /\ site_statuses = <<>>
    /\ InitSweep

\* a command is called while the budget of the lock specification lasts
LockCall(A) == TotalCalls < MaxLockCalls /\ A

LockLoopHead == sched_loop_head(MaxLockTicks)

\* the sweep of a tick follows its probes
LockSweepStart == spc = "sleep" /\ nsweeps < tick_count /\ SweepStart

\* and the sleep follows the sweep
LockSleep == swpc = "idle" /\ nsweeps = tick_count /\ SchedSleep

\* the steps that call a command
LockCalls ==
    \/ \E h \in Tasks : LockCall(AddTarget(h, "9.9.9.9"))
    \/ \E h \in Tasks : LockCall(RemoveTarget(h, "8.8.8.8"))
    \/ \E h \in Tasks : LockCall(SetPrimaryTarget(h, "8.8.8.8"))
    \/ \E h \in Tasks : LockCall(RemoveSiteMonitorRetain(h, "a.com"))

\* the steps by which a command already called goes on
LockHandlerSteps ==
    \/ \E h \in Tasks : AddTargetHistory(h)
    \/ \E h \in Tasks : RemoveTargetHistory(h)
    \/ \E h \in Tasks : RemoveTargetPrimary(h)
    \/ \E h \in Tasks : SetPrimaryWrite(h)
    \/ \E h \in Tasks : RemoveSiteMonitorStatuses(h)

\* the steps of a tick that has started
LockTickSteps ==
    \/ SchedSnapTargets
    \/ SchedSnapPrimary
    \/ SchedPing
    \/ LockSweepStart
    \/ SweepReadPrev
    \/ \E c \in BOOLEAN : SweepCheck(c)
    \/ SweepStore
    \/ SweepEnd
    \/ LockSleep

NextLocks ==
    \/ LockCalls
    \/ LockHandlerSteps
    \/ LockLoopHead
    \/ LockTickSteps

SpecLocks == InitLocks /\ [][NextLocks]_vars

\* the mutex a task is waiting for, "none" if it is not between two awaits
Wants(h) ==
    IF pc[h] \in {"add_target_history", "remove_target_history"} THEN "ping_history"
    ELSE IF pc[h] \in {"remove_target_primary", "set_primary_write"} THEN "primary_target"
    ELSE IF pc[h] = "remove_site_monitor_statuses" THEN "site_statuses"
    ELSE "none"

\* the place of a mutex in the order of the claim
LockRank(l) ==
    IF l \in {"targets", "site_monitors"} THEN 1
    ELSE IF l \in {"ping_history", "site_statuses"} THEN 2
    ELSE 3

LockChain(l) == IF l \in {"site_monitors", "site_statuses"} THEN "site" ELSE "registry"

\* some command or the tick is between two of its steps
WorkInProgress ==
    \/ \E h \in Tasks : pc[h] # "idle"
    \/ spc \in {"snap_targets", "snap_primary", "ping", "sleep"}
    \/ swpc # "idle"

\* C32: no reachable state is a deadlock. Every mutex that is held is held by
\* a command in progress, never by the scheduler between two of its steps; a
\* command that waits for a mutex holds only mutexes that come before it in
\* the order targets, ping_history, primary_target or site_monitors,
\* site_statuses; no two commands wait for a mutex the other holds; and
\* whenever a command or a tick is in progress some step of a command or of
\* the tick can be taken.
C32_NoDeadlock ==
    /\ \A l \in LockNames :
         locks[l] # "free" => locks[l] \in Tasks /\ pc[locks[l]] # "idle"
    /\ \A h \in Tasks, l \in LockNames :
         (Wants(h) # "none" /\ locks[l] = h)
           => /\ LockChain(l) = LockChain(Wants(h))
              /\ LockRank(l) < LockRank(Wants(h))
    /\ \A g \in Tasks, h \in Tasks :
         ~(/\ Wants(g) # "none" /\ locks[Wants(g)] = h
           /\ Wants(h) # "none" /\ locks[Wants(h)] = g)
    /\ WorkInProgress => ENABLED (LockHandlerSteps \/ LockTickSteps)

\* C32 witness: remove_target holds targets and ping_history and waits for
\* primary_target while the other task, in set_primary_target, has passed its
\* membership test and waits for primary_target too, and the tick waits for
\* ping_history.
C32_Witness ==
    /\ pc["h1"] = "remove_target_primary"
    /\ locks["targets"] = "h1"
    /\ locks["ping_history"] = "h1"
    /\ pc["h2"] = "set_primary_write"
    /\ spc = "ping"

-----------------------------------------------------------------------------
(* The keys of the history store and the target list (lib.rs 271-287,      *)
(* 1112-1135)                                                              *)

\* C33: whenever no command is in progress and no tick is in progress, every
\* key of the history store is a member of the target list: a target that
\* remove_target has removed has no history entry once the tick that was in
\* flight has finished.
C33_HistoryKeysAreTargets ==
    (AllIdle /\ spc = "loop") => DOMAIN ping_history \subseteq Range(targets)

-----------------------------------------------------------------------------
(* The keys of the site-status map and the monitor list (lib.rs 688-697,   *)
(* 850-901)                                                                *)

\* C34: whenever no sweep is in progress, every key of the site-status map is
\* the url of a configured monitor: a url that remove_site_monitor has
\* removed has no status once the sweep that was in flight has finished.
C34_StatusKeysAreMonitors ==
    swpc = "idle" =>
        DOMAIN site_statuses \subseteq {site_monitors[i].url : i \in 1..Len(site_monitors)}

-----------------------------------------------------------------------------
(* The two copies a tick takes (lib.rs 1110-1114)                          *)

\* C35: in every tick the primary target the scheduler has read is a member
\* of the target list it has copied for that tick.
C35_SnapshotPrimaryIsMember ==
    spc \in {"ping", "sleep"} => Contains(snap_targets, snap_primary)

-----------------------------------------------------------------------------
(* save_history_async statement by statement (lib.rs 1067-1081)            *)

\* what a step of save_history_async never touches
SaveFrame ==
    UNCHANGED <<regVars, taskVars, tick_count, snap_targets, snap_primary, idx,
                gateVars, ipVars, ipLocals, siteVars, sweepVars, outVars, uiVars,
                probeVars, tick_result, tick_mode, tick_threshold, sdm_primary,
                reply, is_system_sleeping, last_interval_secs, disk, nnaps, now>>

\* a tick on which the flush is due reaches save_history_async
\*                                                        (lines 1216-1218)
SaveBegin ==
    /\ spc = "loop"
    /\ disk_job = None
    /\ nsaves < MaxSnapshots
    /\ spc' = "save_history"
    /\ UNCHANGED <<save_copy, nsaves, disk_job>>
    /\ SaveFrame

\* let history = state.ping_history.lock().await.clone()       (line 1068)
SaveCloneHistory ==
    /\ spc = "save_history"
    /\ locks["ping_history"] = "free"
    /\ save_copy' = [save_copy EXCEPT !.history = ping_history]
    /\ spc' = "save_targets"
    /\ UNCHANGED <<nsaves, disk_job>>
    /\ SaveFrame

\* let targets = state.targets.lock().await.clone()            (line 1069)
SaveCloneTargets ==
    /\ spc = "save_targets"
    /\ locks["targets"] = "free"
    /\ save_copy' = [save_copy EXCEPT !.targets = targets]
    /\ spc' = "save_primary"
    /\ UNCHANGED <<nsaves, disk_job>>
    /\ SaveFrame

\* let primary = state.primary_target.lock().await.clone()     (line 1070)
SaveClonePrimary ==
    /\ spc = "save_primary"
    /\ locks["primary_target"] = "free"
    /\ save_copy' = [save_copy EXCEPT !.primary = primary_target]
    /\ spc' = "save_spawn"
    /\ UNCHANGED <<nsaves, disk_job>>
    /\ SaveFrame

\* the clones of site_monitors, vpn_settings and ping_interval_secs, which no
\* command of this specification writes, and the spawn_blocking of
\* save_history with the six clones                     (lines 1071-1078)
SaveSpawn ==
    /\ spc = "save_spawn"
    /\ locks["site_monitors"] = "free"
    /\ nsaves' = nsaves + 1
    /\ disk_job' = Some(save_history(save_copy.history, save_copy.targets,
                                     save_copy.primary, site_monitors,
                                     vpn_settings, ping_interval_secs))
    /\ spc' = "loop"
    /\ UNCHANGED save_copy
    /\ SaveFrame

\* a flush while task h1 adds 8.8.8.8, removes a target and makes 8.8.8.8 the
\* primary
NextSnapshot ==
    \/ AddTarget("h1", "8.8.8.8")
    \/ AddTargetHistory("h1")
    \/ \E t \in {"1.1.1.1", "8.8.8.8"} : RemoveTarget("h1", t)
    \/ RemoveTargetHistory("h1")
    \/ RemoveTargetPrimary("h1")
    \/ SetPrimaryTarget("h1", "8.8.8.8")
    \/ SetPrimaryWrite("h1")
    \/ SaveBegin
    \/ SaveCloneHistory
    \/ SaveCloneTargets
    \/ SaveClonePrimary
    \/ SaveSpawn
    \/ DiskWrite

SpecSnapshot == Init /\ [][NextSnapshot]_vars

\* C36: every snapshot handed to the writing thread is consistent with one
\* state of the registry: its primary_target is a member of its targets and
\* every key of its history is a member of its targets.
C36_SnapshotConsistent ==
    disk_job # None =>
        /\ Contains(disk_job[1].targets, disk_job[1].primary_target)
        /\ DOMAIN disk_job[1].history \subseteq Range(disk_job[1].targets)

\* the latency of the latest sample of a target in a history, None without one
LatestLatency(hist, t) ==
    IF t \in DOMAIN hist /\ Len(hist[t]) > 0
      THEN hist[t][Len(hist[t])].latency_ms
      ELSE None

\* C37: once set_display_mode has returned Ok and no tick is in flight, the
\* tray shows the icon and the label of the latest sample of the primary
\* target under the current display mode.
C37_TrayFollowsDisplayMode ==
    ( /\ pc["h1"] = "idle"
      /\ arg["h1"].op = "set_display_mode"
      /\ ret["h1"] = "Ok"
      /\ spc \in {"loop", "sleep"}
      /\ HistoryOf(ping_history, primary_target) # <<>> )
    => tray = ClaimedTray(LatestLatency(ping_history, primary_target), display_mode)

-----------------------------------------------------------------------------
(* get_my_ip_info beside the background identity check.                    *)

\* if Utc::now().signed_duration_since(checked_at).num_seconds() < 300
\*                                                                (line 475)
IpCacheSecs == 300

\* what a step of get_my_ip_info never touches
GetIpFrame ==
    UNCHANGED <<extVars, regVars, svcVars, schedVars, gateVars, ipLocals,
                siteVars, sweepVars, outVars, vpn_settings, network_stability,
                network_change_history, last_ip_check_was_manual,
                last_vpn_notification, now>>

\* get_my_ip_info up to the request (lib.rs 461-481): without force_refresh a
\* cached identity younger than five minutes is returned; task h1 issues it
get_my_ip_info_call(force, budget) ==
    /\ pc["h1"] = "idle"
    /\ ncalls["h1"] < budget
    /\ ncalls' = [ncalls EXCEPT !["h1"] = @ + 1]
    /\ arg' = [arg EXCEPT !["h1"] = [op |-> "get_my_ip_info",
                                     target |-> IF force THEN "force" ELSE ""]]
    /\ IF /\ ~force
          /\ IsSome(ip_info)
          /\ IsSome(ip_info_last_check)
          /\ now - Unwrap(ip_info_last_check) < IpCacheSecs
         THEN /\ ret' = [ret EXCEPT !["h1"] = "Ok"]
              /\ UNCHANGED pc
         ELSE /\ ret' = [ret EXCEPT !["h1"] = "pending"]
              /\ pc' = [pc EXCEPT !["h1"] = "ip_fetch"]
    /\ UNCHANGED <<ip_info, ip_info_last_check>>
    /\ GetIpFrame

\* reqwest::get(..).await or resp.json().await returned Err  (lines 481-488)
GetIpFetchErr ==
    /\ pc["h1"] = "ip_fetch"
    /\ pc' = [pc EXCEPT !["h1"] = "idle"]
    /\ ret' = [ret EXCEPT !["h1"] = "Err"]
    /\ UNCHANGED <<ip_info, ip_info_last_check, arg, ncalls>>
    /\ GetIpFrame

\* the answer becomes the cached identity                   (lines 490-503)
GetIpStore(info) ==
    /\ pc["h1"] = "ip_fetch"
    /\ ip_info' = Some(info)
    /\ ip_info_last_check' = Some(now)
    /\ pc' = [pc EXCEPT !["h1"] = "idle"]
    /\ ret' = [ret EXCEPT !["h1"] = "Ok"]
    /\ UNCHANGED <<arg, ncalls>>
    /\ GetIpFrame

GetMyIpInfo(force) == get_my_ip_info_call(force, MaxRefreshCalls)

\* the clock of this specification moves to either side of the cache's age
\* limit
RefreshTimePasses(d) ==
    /\ now < IpCacheSecs
    /\ now' = now + d
    /\ UNCHANGED <<extVars, regVars, taskVars, schedVars, compVars>>

RefreshCheckStart == check_ip_start(MaxRefreshChecks, 0)

NextRefresh ==
    \/ RefreshCheckStart
    \/ CheckIpFetchErr
    \/ \E c \in IpInfos : CheckIpDetect(c)
    \/ CheckIpNotify
    \/ CheckIpStore
    \/ \E f \in BOOLEAN : GetMyIpInfo(f)
    \/ GetIpFetchErr
    \/ \E c \in IpInfos : GetIpStore(c)
    \/ \E d \in {IpCacheSecs - 1, IpCacheSecs} : RefreshTimePasses(d)

SpecRefresh == Init /\ [][NextRefresh]_vars

\* two identities differ in the country code, the address or the provider
IdentityDiffers(a, b) ==
    a.country_code # b.country_code \/ a.ip # b.ip \/ a.isp # b.isp

\* C38: every step that replaces the cached identity by one that differs from
\* it in country code, address or provider leaves, as the newest entry of the
\* change log, an event from the old identity to the new one that was also
\* emitted, and the event is marked expected exactly when the step is the one
\* of get_my_ip_info.
C38_NoSilentIdentityChange ==
    [][(/\ IsSome(ip_info)
        /\ IsSome(ip_info')
        /\ IdentityDiffers(Unwrap(ip_info), Unwrap(ip_info')))
       => /\ network_change_history' # <<>>
          /\ LET ev == network_change_history'[Len(network_change_history')]
             IN  /\ ev.previous = ip_info
                 /\ ev.current = Unwrap(ip_info')
                 /\ ev.is_expected = (pc["h1"] = "ip_fetch")
                 /\ \E i \in 1..Len(emitted') :
                        emitted'[i] = [name |-> "network-change", payload |-> ev]]_vars

\* the length of the trailing window of the stability counter (seconds)
TrailingHour == 60 * 60

\* the CountryChanged and IpChanged events detected after time t
CountedSince(em, t) ==
    LET d == DetectedChanges(em)
    IN  { i \in 1..Len(d) :
            /\ d[i].change_type \in {"CountryChanged", "IpChanged"}
            /\ d[i].timestamp > t }

\* C39: changes_last_hour is at most the number of CountryChanged and
\* IpChanged events detected during the last hour.
C39_ChangesLastHourIsTrailing ==
    network_stability.changes_last_hour
        <= Cardinality(CountedSince(emitted, now - TrailingHour))

-----------------------------------------------------------------------------
(* Progress of the service loop under the sleep signal.                    *)

\* the loaded state of the progress specification: two targets and an
\* interval of 30 s, with which every tenth tick saves
InitLive ==
    /\ targets = <<DefaultTarget, "8.8.8.8">>
    /\ ping_history = [t \in {DefaultTarget, "8.8.8.8"} |-> <<>>]
    /\ primary_target = DefaultTarget
    /\ ping_interval_secs = 30
    /\ now = 0
    /\ InitTasks
    /\ InitService
    /\ InitAlerts
    /\ InitSite

\* the steps of the spawned service task and of the work it awaits: the
\* runtime resumes the task whenever the awaited probe, site check, fetch,
\* write or sleep has ended
LoopProgress ==
    \/ ServiceLoopHead
    \/ ServiceNap
    \/ ServicePing
    \/ ServiceSite
    \/ SweepEnd
    \/ ServiceVpn
    \/ CheckIpDetect(SteadyIpInfo)
    \/ CheckIpStore
    \/ ServiceSave
    \/ DiskWrite
    \/ ServiceSleep

SpecLive == InitLive /\ [][NextSuspend]_vars /\ WF_vars(LoopProgress)

\* the tick in progress has just probed every target of the list: each
\* history ends with a sample taken at this time
TickProbedAll ==
    /\ spc = "site"
    /\ snap_targets = targets
    /\ \A i \in 1..Len(targets) :
           LET h == HistoryOf(ping_history, targets[i])
           IN  Len(h) > 0 /\ h[Len(h)].timestamp = now

\* C40: under fair scheduling of the service task, from any state where the
\* sleep signal is false and the loop is elsewhere than just behind the probes
\* of a tick, either the signal becomes true or the loop comes to have probed
\* every target again (so a tick follows every resume), and a tick that has
\* started reaches the end of its iteration whatever the signal does.
C40_TickFollowsWhileAwake ==
    /\ (~is_system_sleeping /\ spc # "site" /\ tick_count < MaxServiceTicks)
           ~> (is_system_sleeping \/ TickProbedAll)
    /\ (spc = "tick") ~> (spc = "loop")

\* C40 witness: after a suspension with a nap and a resume, a further tick has
\* probed both targets.
C40_Witness ==
    /\ nnaps >= 1
    /\ tick_count >= 2
    /\ ~is_system_sleeping
    /\ Len(targets) = 2
    /\ TickProbedAll

=============================================================================
